---- MODULE Spec2Model ----
(***************************************************************************)
(* Model of the anonymization engine of the repository:                    *)
(*   services/k_anonymity_service.py         (KAnonymityService)           *)
(*   services/differential_privacy_service.py (DifferentialPrivacyService) *)
(*                                                                         *)
(* Python values are tagged records [t, n, s]: None, a number (float with  *)
(* an integral value) or a string.  A string is a sequence of characters;  *)
(* an ASCII character is itself, any other character is the token "uXXXX"  *)
(* of its code point, so that len(), slicing, substring tests and the      *)
(* regular expression of _parse_interval_width act character by character. *)
(* RAISE stands for an exception leaving the function.                     *)
(***************************************************************************)
EXTENDS Integers, Sequences, FiniteSets, TLC

\* ------------------------------------------------------------------------
\* Bounds of the model.
MaxLevel == 4
MaxRecords == 3
MaxK == 3
MaxIterations == 3
MaxDpRecords == 2
MaxLossRecords == 2
MaxNoise == 2000
MaxQueries == 31

\* Reals are counted in 1/Unit: sums, means over up to 4 values and the
\* sample 1/2 are whole numbers of units.
Unit == 3 * 4

\* ------------------------------------------------------------------------
\* State.  g_in, g_out: the inputs and outputs of one application of the
\* generalization taxonomy.  heap, data: the record objects and the caller's
\* list of them; caller_records: what the caller's records held when the
\* call was made, and rounds: the generalize-group-validate rounds begun
\* (both history variables).  The other variables are the arguments and
\* locals of one KAnonymityService.anonymize call, k the service's self.k,
\* pc its position and ret what it returned.  epsilon, delta, field_bounds
\* and field_sensitivity are the fields of one DifferentialPrivacyService,
\* dp_ret the call its caller last made and what it returned, threads the
\* privatize_enterprise_data calls running on it at the same time, each with
\* its position and locals.  l_in, l_out: the
\* inputs and outputs of one compute_information_loss.
VARIABLES g_in, g_out, l_in, l_out,
          heap, data, caller_records,
          k, quasi_identifiers, generalization_levels, max_iterations,
          pc, iteration, anonymized_data, current_anonymized, ret, rounds,
          epsilon, delta, field_bounds, field_sensitivity, dp_ret, threads

genVars == <<g_in, g_out>>
lossVars == <<l_in, l_out>>
heapVars == <<heap, data, caller_records>>
anonVars == <<k, quasi_identifiers, generalization_levels, max_iterations, pc, iteration,
              anonymized_data, current_anonymized, ret, rounds>>
dpVars == <<epsilon, delta, field_bounds, field_sensitivity, dp_ret, threads>>
vars == <<genVars, lossVars, heapVars, anonVars, dpVars>>

\* ------------------------------------------------------------------------
\* Python values.
None == [t |-> "none", n |-> 0, s |-> <<>>]
Num(x) == [t |-> "num", n |-> x, s |-> <<>>]
Str(x) == [t |-> "str", n |-> 0, s |-> x]
RAISE == [t |-> "raise", n |-> 0, s |-> <<>>]

\* `not v` for a Python value: None, 0 and "" are falsy.
Falsy(v) == \/ v.t = "none"
            \/ v.t = "num" /\ v.n = 0
            \/ v.t = "str" /\ v.s = <<>>

SetMin(S) == CHOOSE x \in S : \A y \in S : x <= y
SetMax(S) == CHOOSE x \in S : \A y \in S : x >= y

Digits == <<"0", "1", "2", "3", "4", "5", "6", "7", "8", "9">>
IsDigit(c) == \E i \in 1..10 : Digits[i] = c
DigitVal(c) == (CHOOSE i \in 1..10 : Digits[i] = c) - 1

RECURSIVE NatStr(_)
NatStr(x) == IF x < 10 THEN <<Digits[x + 1]>>
             ELSE NatStr(x \div 10) \o <<Digits[(x % 10) + 1]>>

\* str(v): a float prints with its fractional part, None prints as "None".
PyStr(v) ==
    IF v.t = "str" THEN v.s
    ELSE IF v.t = "none" THEN <<"N", "o", "n", "e">>
    ELSE IF v.n < 0 THEN <<"-">> \o NatStr(-v.n) \o <<".", "0">>
    ELSE NatStr(v.n) \o <<".", "0">>

\* s.strip()
RECURSIVE LStrip(_)
LStrip(s) == IF s # <<>> /\ Head(s) = " " THEN LStrip(Tail(s)) ELSE s
RECURSIVE RStrip(_)
RStrip(s) == IF s # <<>> /\ s[Len(s)] = " " THEN RStrip(SubSeq(s, 1, Len(s) - 1)) ELSE s
Strip(s) == RStrip(LStrip(s))

\* `a in b` for two strings.
IsSubstring(a, b) ==
    \E i \in 0..(Len(b) - Len(a)) : SubSeq(b, i + 1, i + Len(a)) = a

\* The longest run of digits at the start of s (its length).
RECURSIVE DigitRun(_)
DigitRun(s) == IF s # <<>> /\ IsDigit(Head(s)) THEN 1 + DigitRun(Tail(s)) ELSE 0
RECURSIVE DigitsVal(_)
DigitsVal(s) == IF s = <<>> THEN 0
                ELSE DigitsVal(SubSeq(s, 1, Len(s) - 1)) * 10 + DigitVal(s[Len(s)])
AllZero(s) == \A i \in 1..Len(s) : s[i] = "0"

\* float(v), on the numerals of the model: optional sign, digits, and an
\* optional fractional part of zeros, surrounded by blanks.  [ok, n]
ParseDigits(neg, s1, d) ==
    IF d > 0 /\ (d = Len(s1) \/ (s1[d + 1] = "." /\ AllZero(SubSeq(s1, d + 2, Len(s1)))))
    THEN [ok |-> TRUE,
          n |-> IF neg THEN -DigitsVal(SubSeq(s1, 1, d)) ELSE DigitsVal(SubSeq(s1, 1, d))]
    ELSE [ok |-> FALSE, n |-> 0]

ParseUnsigned(neg, s1) == ParseDigits(neg, s1, DigitRun(s1))

ParseSigned(s0) ==
    ParseUnsigned(s0 # <<>> /\ Head(s0) = "-",
                  IF s0 # <<>> /\ Head(s0) \in {"-", "+"} THEN Tail(s0) ELSE s0)

ParseFloat(str) == ParseSigned(Strip(str))

float(v) == IF v.t = "num" THEN [ok |-> TRUE, n |-> v.n]
            ELSE IF v.t = "str" THEN ParseFloat(v.s)
            ELSE [ok |-> FALSE, n |-> 0]

UNKNOWN == <<"u672a", "u77e5">>  \* the "unknown" sentinel
MASK == <<"*">>  \* the suppression sentinel
\* revenue, level 1: below 1, 1-5, 5-10, 10-50, 50-100, 100-500, 500 and above
revenue_labels_1 ==
    << <<"1", "u4ebf", "u4ee5", "u4e0b">>,
       <<"1", "-", "5", "u4ebf">>,
       <<"5", "-", "1", "0", "u4ebf">>,
       <<"1", "0", "-", "5", "0", "u4ebf">>,
       <<"5", "0", "-", "1", "0", "0", "u4ebf">>,
       <<"1", "0", "0", "-", "5", "0", "0", "u4ebf">>,
       <<"5", "0", "0", "u4ebf", "u4ee5", "u4e0a">> >>
\* revenue, level 2: below 10, 10-50, 50-100, 100 and above
revenue_labels_2 ==
    << <<"1", "0", "u4ebf", "u4ee5", "u4e0b">>,
       <<"1", "0", "-", "5", "0", "u4ebf">>,
       <<"5", "0", "-", "1", "0", "0", "u4ebf">>,
       <<"1", "0", "0", "u4ebf", "u4ee5", "u4e0a">> >>
\* revenue, other levels: below 50, 50-100, 100 and above
revenue_labels_3 ==
    << <<"5", "0", "u4ebf", "u4ee5", "u4e0b">>,
       <<"5", "0", "-", "1", "0", "0", "u4ebf">>,
       <<"1", "0", "0", "u4ebf", "u4ee5", "u4e0a">> >>
\* market share, level 1
share_labels_1 ==
    << <<"1", "%", "u4ee5", "u4e0b">>,
       <<"1", "-", "5", "%">>,
       <<"5", "-", "1", "0", "%">>,
       <<"1", "0", "-", "2", "0", "%">>,
       <<"2", "0", "-", "5", "0", "%">>,
       <<"5", "0", "%", "u4ee5", "u4e0a">> >>
\* market share, level 2
share_labels_2 ==
    << <<"5", "%", "u4ee5", "u4e0b">>,
       <<"5", "-", "2", "0", "%">>,
       <<"2", "0", "-", "5", "0", "%">>,
       <<"5", "0", "%", "u4ee5", "u4e0a">> >>
\* market share, other levels
share_labels_3 ==
    << <<"1", "0", "%", "u4ee5", "u4e0b">>,
       <<"1", "0", "-", "5", "0", "%">>,
       <<"5", "0", "%", "u4ee5", "u4e0a">> >>
\* R&D ratio, level 1
rd_labels_1 ==
    << <<"u4f4e", "u6295", "u5165", "(", "5", "%", "u4ee5", "u4e0b", ")">>,
       <<"u4e2d", "u7b49", "u6295", "u5165", "(", "5", "-", "1", "0", "%", ")">>,
       <<"u8f83", "u9ad8", "u6295", "u5165", "(", "1", "0", "-", "1", "5", "%", ")">>,
       <<"u9ad8", "u6295", "u5165", "(", "1", "5", "%", "u4ee5", "u4e0a", ")">> >>
\* R&D ratio, level 2
rd_labels_2 ==
    << <<"u4e2d", "u4f4e", "u6295", "u5165", "(", "1", "0", "%", "u4ee5", "u4e0b", ")">>,
       <<"u4e2d", "u9ad8", "u6295", "u5165", "(", "1", "0", "%", "u4ee5", "u4e0a", ")">> >>
\* R&D ratio, other levels
rd_labels_3 ==
    << <<"u4e00", "u822c", "u6295", "u5165">>,
       <<"u9ad8", "u6295", "u5165">> >>
\* upstream, midstream, downstream
stream_names ==
    << <<"u4e0a", "u6e38">>,
       <<"u4e2d", "u6e38">>,
       <<"u4e0b", "u6e38">> >>
CHAIN_ROOT == <<"u4ea7", "u4e1a", "u94fe", "u4f01", "u4e1a">>  \* the root of the chain-stage hierarchy
OTHER_REGION == <<"u5176", "u4ed6", "u5730", "u533a">>  \* "other region": a city the mapping does not know
CHINA == <<"u4e2d", "u56fd">>  \* a province no region lists
\* the sensitivity levels counted as high: "high", "rather high"
high_levels ==
    << <<"u9ad8">>,
       <<"u8f83", "u9ad8">> >>
HIGH_SENSITIVE == <<"u9ad8", "u654f", "u611f">>  \* 
LOW_SENSITIVE == <<"u4f4e", "u654f", "u611f">>  \* 
chain_hierarchy ==
    <<
      <<<<"u4e0a", "u6e38">>, <<<<"u4e0a", "u6e38", "-", "u539f", "u6750", "u6599">>, <<"u4e0a", "u6e38", "-", "u8bbe", "u5907">>, <<"u4e0a", "u6e38", "-", "u96f6", "u90e8", "u4ef6">>>>>>,
      <<<<"u4e2d", "u6e38">>, <<<<"u4e2d", "u6e38", "-", "u5236", "u9020">>, <<"u4e2d", "u6e38", "-", "u5c01", "u88c5">>, <<"u4e2d", "u6e38", "-", "u7ec4", "u88c5">>>>>>,
      <<<<"u4e0b", "u6e38">>, <<<<"u4e0b", "u6e38", "-", "u5e94", "u7528">>, <<"u4e0b", "u6e38", "-", "u9500", "u552e">>, <<"u4e0b", "u6e38", "-", "u670d", "u52a1">>>>>>
    >>
region_hierarchy ==
    <<
      <<<<"u534e", "u5317">>, <<<<"u5317", "u4eac", "u5e02">>, <<"u5929", "u6d25", "u5e02">>, <<"u6cb3", "u5317", "u7701">>, <<"u5c71", "u897f", "u7701">>, <<"u5185", "u8499", "u53e4", "u81ea", "u6cbb", "u533a">>>>>>,
      <<<<"u534e", "u4e1c">>, <<<<"u4e0a", "u6d77", "u5e02">>, <<"u6c5f", "u82cf", "u7701">>, <<"u6d59", "u6c5f", "u7701">>, <<"u5b89", "u5fbd", "u7701">>, <<"u798f", "u5efa", "u7701">>, <<"u6c5f", "u897f", "u7701">>, <<"u5c71", "u4e1c", "u7701">>>>>>,
      <<<<"u534e", "u5357">>, <<<<"u5e7f", "u4e1c", "u7701">>, <<"u5e7f", "u897f", "u58ee", "u65cf", "u81ea", "u6cbb", "u533a">>, <<"u6d77", "u5357", "u7701">>>>>>,
      <<<<"u534e", "u4e2d">>, <<<<"u6cb3", "u5357", "u7701">>, <<"u6e56", "u5317", "u7701">>, <<"u6e56", "u5357", "u7701">>>>>>,
      <<<<"u897f", "u5357">>, <<<<"u91cd", "u5e86", "u5e02">>, <<"u56db", "u5ddd", "u7701">>, <<"u8d35", "u5dde", "u7701">>, <<"u4e91", "u5357", "u7701">>, <<"u897f", "u85cf", "u81ea", "u6cbb", "u533a">>>>>>,
      <<<<"u897f", "u5317">>, <<<<"u9655", "u897f", "u7701">>, <<"u7518", "u8083", "u7701">>, <<"u9752", "u6d77", "u7701">>, <<"u5b81", "u590f", "u56de", "u65cf", "u81ea", "u6cbb", "u533a">>, <<"u65b0", "u7586", "u7ef4", "u543e", "u5c14", "u81ea", "u6cbb", "u533a">>>>>>,
      <<<<"u4e1c", "u5317">>, <<<<"u8fbd", "u5b81", "u7701">>, <<"u5409", "u6797", "u7701">>, <<"u9ed1", "u9f99", "u6c5f", "u7701">>>>>>
    >>
city_mapping ==
    <<
      <<<<"u5317", "u4eac">>, <<"u5317", "u4eac", "u5e02">>>>,
      <<<<"u4e0a", "u6d77">>, <<"u4e0a", "u6d77", "u5e02">>>>,
      <<<<"u5929", "u6d25">>, <<"u5929", "u6d25", "u5e02">>>>,
      <<<<"u91cd", "u5e86">>, <<"u91cd", "u5e86", "u5e02">>>>,
      <<<<"u82cf", "u5dde">>, <<"u6c5f", "u82cf", "u7701">>>>,
      <<<<"u5357", "u4eac">>, <<"u6c5f", "u82cf", "u7701">>>>,
      <<<<"u65e0", "u9521">>, <<"u6c5f", "u82cf", "u7701">>>>,
      <<<<"u5e38", "u5dde">>, <<"u6c5f", "u82cf", "u7701">>>>,
      <<<<"u5357", "u901a">>, <<"u6c5f", "u82cf", "u7701">>>>,
      <<<<"u5f90", "u5dde">>, <<"u6c5f", "u82cf", "u7701">>>>,
      <<<<"u626c", "u5dde">>, <<"u6c5f", "u82cf", "u7701">>>>,
      <<<<"u76d0", "u57ce">>, <<"u6c5f", "u82cf", "u7701">>>>,
      <<<<"u6df1", "u5733">>, <<"u5e7f", "u4e1c", "u7701">>>>,
      <<<<"u5e7f", "u5dde">>, <<"u5e7f", "u4e1c", "u7701">>>>,
      <<<<"u4e1c", "u839e">>, <<"u5e7f", "u4e1c", "u7701">>>>,
      <<<<"u4f5b", "u5c71">>, <<"u5e7f", "u4e1c", "u7701">>>>,
      <<<<"u60e0", "u5dde">>, <<"u5e7f", "u4e1c", "u7701">>>>,
      <<<<"u73e0", "u6d77">>, <<"u5e7f", "u4e1c", "u7701">>>>,
      <<<<"u676d", "u5dde">>, <<"u6d59", "u6c5f", "u7701">>>>,
      <<<<"u5b81", "u6ce2">>, <<"u6d59", "u6c5f", "u7701">>>>,
      <<<<"u6e29", "u5dde">>, <<"u6d59", "u6c5f", "u7701">>>>,
      <<<<"u5609", "u5174">>, <<"u6d59", "u6c5f", "u7701">>>>,
      <<<<"u7ecd", "u5174">>, <<"u6d59", "u6c5f", "u7701">>>>,
      <<<<"u5408", "u80a5">>, <<"u5b89", "u5fbd", "u7701">>>>,
      <<<<"u829c", "u6e56">>, <<"u5b89", "u5fbd", "u7701">>>>,
      <<<<"u6ec1", "u5dde">>, <<"u5b89", "u5fbd", "u7701">>>>,
      <<<<"u6210", "u90fd">>, <<"u56db", "u5ddd", "u7701">>>>,
      <<<<"u5b9c", "u5bbe">>, <<"u56db", "u5ddd", "u7701">>>>,
      <<<<"u7ef5", "u9633">>, <<"u56db", "u5ddd", "u7701">>>>,
      <<<<"u897f", "u5b89">>, <<"u9655", "u897f", "u7701">>>>,
      <<<<"u54b8", "u9633">>, <<"u9655", "u897f", "u7701">>>>,
      <<<<"u957f", "u6c99">>, <<"u6e56", "u5357", "u7701">>>>,
      <<<<"u682a", "u6d32">>, <<"u6e56", "u5357", "u7701">>>>,
      <<<<"u6b66", "u6c49">>, <<"u6e56", "u5317", "u7701">>>>,
      <<<<"u5b9c", "u660c">>, <<"u6e56", "u5317", "u7701">>>>,
      <<<<"u5b81", "u5fb7">>, <<"u798f", "u5efa", "u7701">>>>,
      <<<<"u798f", "u5dde">>, <<"u798f", "u5efa", "u7701">>>>,
      <<<<"u53a6", "u95e8">>, <<"u798f", "u5efa", "u7701">>>>,
      <<<<"u9752", "u5c9b">>, <<"u5c71", "u4e1c", "u7701">>>>,
      <<<<"u6d4e", "u5357">>, <<"u5c71", "u4e1c", "u7701">>>>,
      <<<<"u70df", "u53f0">>, <<"u5c71", "u4e1c", "u7701">>>>,
      <<<<"u5b9c", "u6625">>, <<"u6c5f", "u897f", "u7701">>>>,
      <<<<"u5357", "u660c">>, <<"u6c5f", "u897f", "u7701">>>>,
      <<<<"u8d63", "u5dde">>, <<"u6c5f", "u897f", "u7701">>>>,
      <<<<"u90d1", "u5dde">>, <<"u6cb3", "u5357", "u7701">>>>,
      <<<<"u77f3", "u5bb6", "u5e84">>, <<"u6cb3", "u5317", "u7701">>>>,
      <<<<"u592a", "u539f">>, <<"u5c71", "u897f", "u7701">>>>,
      <<<<"u6c88", "u9633">>, <<"u8fbd", "u5b81", "u7701">>>>,
      <<<<"u5927", "u8fde">>, <<"u8fbd", "u5b81", "u7701">>>>,
      <<<<"u957f", "u6625">>, <<"u5409", "u6797", "u7701">>>>,
      <<<<"u54c8", "u5c14", "u6ee8">>, <<"u9ed1", "u9f99", "u6c5f", "u7701">>>>,
      <<<<"u8d35", "u9633">>, <<"u8d35", "u5dde", "u7701">>>>,
      <<<<"u6606", "u660e">>, <<"u4e91", "u5357", "u7701">>>>,
      <<<<"u5170", "u5dde">>, <<"u7518", "u8083", "u7701">>>>,
      <<<<"u94f6", "u5ddd">>, <<"u5b81", "u590f", "u56de", "u65cf", "u81ea", "u6cbb", "u533a">>>>,
      <<<<"u4e4c", "u9c81", "u6728", "u9f50">>, <<"u65b0", "u7586", "u7ef4", "u543e", "u5c14", "u81ea", "u6cbb", "u533a">>>>,
      <<<<"u547c", "u548c", "u6d69", "u7279">>, <<"u5185", "u8499", "u53e4", "u81ea", "u6cbb", "u533a">>>>
    >>

\* ------------------------------------------------------------------------
\* Generalization taxonomy (KAnonymityService.generalize_*).

\* The label of the first bin [bins[i], bins[i+1]) holding x; the last bin
\* is open above (its upper bound is float('inf')).
BinHits(bins, x) ==
    {i \in 1..Len(bins) : bins[i] <= x /\ (i = Len(bins) \/ x < bins[i + 1])}

revenue_bins(level) ==
    IF level = 1 THEN <<0, 1, 5, 10, 50, 100, 500>>
    ELSE IF level = 2 THEN <<0, 10, 50, 100>>
    ELSE <<0, 50, 100>>

revenue_labels(level) ==
    IF level = 1 THEN revenue_labels_1
    ELSE IF level = 2 THEN revenue_labels_2
    ELSE revenue_labels_3

generalize_revenue(revenue, level) ==
    IF revenue.t = "none" THEN Str(UNKNOWN)
    ELSE LET f == float(revenue)
             hits == BinHits(revenue_bins(level), f.n)
         IN  IF ~f.ok THEN Str(UNKNOWN)
             ELSE IF hits = {} THEN Str(UNKNOWN)
             ELSE Str(revenue_labels(level)[SetMin(hits)])

\* An if/elif chain `x < t1, x < t2, ..., else`: the index of the branch taken.
Branch(thresholds, x) ==
    LET below == {i \in 1..Len(thresholds) : x < thresholds[i]}
    IN  IF below = {} THEN Len(thresholds) + 1 ELSE SetMin(below)

share_thresholds(level) ==
    IF level = 1 THEN <<1, 5, 10, 20, 50>>
    ELSE IF level = 2 THEN <<5, 20, 50>>
    ELSE <<10, 50>>

share_labels(level) ==
    IF level = 1 THEN share_labels_1
    ELSE IF level = 2 THEN share_labels_2
    ELSE share_labels_3

\* `share < 1` with a string raises TypeError: there is no float() here.
generalize_market_share(share, level) ==
    IF share.t = "none" THEN Str(UNKNOWN)
    ELSE IF share.t # "num" THEN RAISE
    ELSE Str(share_labels(level)[Branch(share_thresholds(level), share.n)])

rd_thresholds(level) ==
    IF level = 1 THEN <<5, 10, 15>>
    ELSE IF level = 2 THEN <<10>>
    ELSE <<15>>

rd_labels(level) ==
    IF level = 1 THEN rd_labels_1
    ELSE IF level = 2 THEN rd_labels_2
    ELSE rd_labels_3

generalize_rd_ratio(ratio, level) ==
    IF ratio.t = "none" THEN Str(UNKNOWN)
    ELSE IF ratio.t # "num" THEN RAISE
    ELSE Str(rd_labels(level)[Branch(rd_thresholds(level), ratio.n)])

\* Level 2: the first category one of whose stages occurs in `stage`, else
\* the first of upstream/midstream/downstream occurring in it, else `stage`.
\* `s in stage` with a number raises TypeError.
generalize_chain_stage(stage, level) ==
    IF Falsy(stage) THEN Str(UNKNOWN)
    ELSE IF level = 1 THEN stage
    ELSE IF level = 2 THEN
        IF stage.t # "str" THEN RAISE
        ELSE LET cats == {i \in 1..Len(chain_hierarchy) :
                            \E j \in 1..Len(chain_hierarchy[i][2]) :
                                IsSubstring(chain_hierarchy[i][2][j], stage.s)}
                 main == {i \in 1..Len(stream_names) : IsSubstring(stream_names[i], stage.s)}
             IN  IF cats # {} THEN Str(chain_hierarchy[SetMin(cats)][1])
                 ELSE IF main # {} THEN Str(stream_names[SetMin(main)])
                 ELSE stage
    ELSE Str(CHAIN_ROOT)

\* dict.get on a table of <<key, value>> pairs: [ok, v]
Lookup(table, key) ==
    LET hit == {i \in 1..Len(table) : table[i][1] = key}
    IN  IF hit = {} THEN [ok |-> FALSE, v |-> <<>>]
        ELSE [ok |-> TRUE, v |-> table[SetMin(hit)][2]]

\* location.strip() on a number raises AttributeError.
generalize_headquarters(location, level) ==
    IF Falsy(location) THEN Str(UNKNOWN)
    ELSE IF location.t # "str" THEN RAISE
    ELSE LET city_name == Strip(location.s)
             province == Lookup(city_mapping, city_name)
             regions == {i \in 1..Len(region_hierarchy) :
                           \E j \in 1..Len(region_hierarchy[i][2]) :
                               region_hierarchy[i][2][j] = province.v}
         IN  IF level = 1 THEN Str(city_name)
             ELSE IF ~province.ok THEN Str(OTHER_REGION)
             ELSE IF level = 2 THEN Str(province.v)
             ELSE IF level = 3 THEN
                 IF regions # {} THEN Str(region_hierarchy[SetMin(regions)][1])
                 ELSE Str(CHINA)
             ELSE Str(UNKNOWN)

generalize_sensitivity_level(level, generalize_level) ==
    IF Falsy(level) THEN Str(UNKNOWN)
    ELSE IF generalize_level = 1 THEN level
    ELSE IF level.t = "str" /\ (\E i \in 1..Len(high_levels) : high_levels[i] = level.s)
         THEN Str(HIGH_SENSITIVE)
    ELSE Str(LOW_SENSITIVE)

suppress_enterprise_info(value) == Str(MASK)

Stars(n) == [i \in 1..n |-> "*"]

\* The default branch masking a string of any length, the short ones too.
generalize_default_any_length(value, level) ==
    IF value.t = "str" THEN
        IF level = 1 THEN value
        ELSE IF level = 2 THEN
            Str(SubSeq(value.s, 1, Len(value.s) \div 2)
                \o Stars(Len(value.s) - Len(value.s) \div 2))
        ELSE Str(MASK)
    ELSE value

\* The default branch of apply_generalization: a string longer than three
\* characters is kept, half masked or replaced by the mask; any other value
\* stays as the copy holds it.
generalize_default(value, level) ==
    IF value.t = "str" /\ Len(value.s) > 3 THEN
        IF level = 1 THEN value
        ELSE IF level = 2 THEN
            Str(SubSeq(value.s, 1, Len(value.s) \div 2)
                \o Stars(Len(value.s) - Len(value.s) \div 2))
        ELSE Str(MASK)
    ELSE value

\* The dispatch on the field name in apply_generalization.
generalize(field, value, level) ==
    IF field = "revenue_2023" THEN generalize_revenue(value, level)
    ELSE IF field = "domestic_market_share" THEN generalize_market_share(value, level)
    ELSE IF field = "r_and_d_ratio" THEN generalize_rd_ratio(value, level)
    ELSE IF field = "chain_stage" THEN generalize_chain_stage(value, level)
    ELSE IF field = "headquarters" THEN generalize_headquarters(value, level)
    ELSE IF field = "sensitivity_level" THEN generalize_sensitivity_level(value, level)
    ELSE generalize_default(value, level)

NoReturn == [returned |-> FALSE, records |-> <<>>, stats |-> <<>>]

\* ------------------------------------------------------------------------
\* Records live in a heap (a sequence of dicts, an object's identity is its
\* index), so that a copy and an update in place differ.

\* No copy made: the record itself handed back.
copy_in_place(h, id) == [heap |-> h, ref |-> id]

\* record.copy(): a new object holding the same fields.  [heap, ref]
copy(h, id) == [heap |-> Append(h, h[id]), ref |-> Len(h) + 1]

\* The records a list of references denotes.
Deref(h, ids) == [i \in 1..Len(ids) |-> h[ids[i]]]

Range(s) == {s[i] : i \in 1..Len(s)}

\* dict.get(key, default)
Get(d, key, default) == IF key \in DOMAIN d THEN d[key] ELSE default

\* apply_generalization on one record: the copy, then one generalized value
\* per declared quasi-identifier the record has, each computed from the
\* value the record passed in holds.  [raised, heap, ref]
apply_generalization(h, id, qis, levels) ==
    LET record == h[id]
        c == copy(h, id)
        fields == Range(qis) \cap DOMAIN record
        out(f) == generalize(f, record[f], Get(levels, f, 1))
        generalized_record ==
            [f \in DOMAIN record |-> IF f \in fields THEN out(f) ELSE c.heap[c.ref][f]]
    IN  IF \E f \in fields : out(f) = RAISE
        THEN [raised |-> TRUE, heap |-> c.heap, ref |-> c.ref]
        ELSE [raised |-> FALSE,
              heap |-> [c.heap EXCEPT ![c.ref] = generalized_record],
              ref |-> c.ref]

\* [apply_generalization(r, ...) for r in records]  [raised, heap, refs]
Prepend(ref, rest) ==
    [raised |-> rest.raised, heap |-> rest.heap, refs |-> <<ref>> \o rest.refs]

RECURSIVE generalize_all(_, _, _, _)
RECURSIVE generalize_rest(_, _, _, _)
generalize_rest(one, ids, qis, levels) ==
    IF one.raised THEN [raised |-> TRUE, heap |-> one.heap, refs |-> <<>>]
    ELSE Prepend(one.ref, generalize_all(one.heap, ids, qis, levels))

generalize_all(h, ids, qis, levels) ==
    IF ids = <<>> THEN [raised |-> FALSE, heap |-> h, refs |-> <<>>]
    ELSE generalize_rest(apply_generalization(h, Head(ids), qis, levels),
                         Tail(ids), qis, levels)

\* The key made of the first quasi-identifier only.
class_key_of_first(record, qis) ==
    [i \in 1..1 |-> PyStr(Get(record, qis[i], Str(<<>>)))]

\* The grouping key of a record: tuple(str(record.get(qi, "")) for qi in ...)
class_key(record, qis) ==
    [i \in 1..Len(qis) |->
        PyStr(Get(record, qis[i], Str(<<>>)))]

\* The distinct elements of a sequence, in order of first occurrence.
RECURSIVE Distinct(_)
Distinct(s) ==
    IF s = <<>> THEN <<>>
    ELSE LET d == Distinct(SubSeq(s, 1, Len(s) - 1))
         IN  IF s[Len(s)] \in Range(d) THEN d ELSE Append(d, s[Len(s)])

\* build_equivalence_classes: a dict in insertion order, as a sequence of
\* [key, members]; members are references, in input order.
build_equivalence_classes(h, ids, qis) ==
    LET key(i) == class_key(h[ids[i]], qis)
        keys == Distinct([i \in 1..Len(ids) |-> key(i)])
        Member(kk) == LET Is(id) == class_key(h[id], qis) = kk
                      IN  SelectSeq(ids, Is)
    IN  [c \in 1..Len(keys) |-> [key |-> keys[c], members |-> Member(keys[c])]]

class_sizes(classes) == {Len(classes[c].members) : c \in 1..Len(classes)}

\* validate_k_anonymity judging by the largest class instead of the smallest.
validate_by_largest_class(classes, kk) ==
    IF classes = <<>>
    THEN [is_k_anonymous |-> FALSE, min_class_size |-> 0, violated_classes |-> 0]
    ELSE [is_k_anonymous |-> SetMax(class_sizes(classes)) >= kk,
          min_class_size |-> SetMin(class_sizes(classes)),
          violated_classes |->
              Cardinality({c \in 1..Len(classes) : Len(classes[c].members) < kk})]

\* validate_k_anonymity  [is_k_anonymous, min_class_size, violated_classes]
validate_k_anonymity(classes, kk) ==
    IF classes = <<>>
    THEN [is_k_anonymous |-> FALSE, min_class_size |-> 0, violated_classes |-> 0]
    ELSE LET min_class_size == SetMin(class_sizes(classes))
         IN  [is_k_anonymous |-> min_class_size >= kk,
              min_class_size |-> min_class_size,
              violated_classes |->
                  Cardinality({c \in 1..Len(classes) : Len(classes[c].members) < kk})]

\* The members of the classes satisfying Keep, class after class.
RECURSIVE Pool(_, _, _)
Pool(classes, kk, valid) ==
    IF classes = <<>> THEN <<>>
    ELSE (IF (Len(Head(classes).members) >= kk) = valid
          THEN Head(classes).members ELSE <<>>) \o Pool(Tail(classes), kk, valid)

\* {k: min(v + 1, 3) for k, v in generalization_levels.items()}
enhance_levels(levels) ==
    [f \in DOMAIN levels |->
        IF levels[f] + 1 < 3 THEN levels[f] + 1 ELSE 3]

\* Suppression of one pooled record: a copy, every declared quasi-identifier
\* it has set to the mask.  [heap, ref]
suppress_copy(c, qis) ==
    [heap |-> [c.heap EXCEPT ![c.ref] =
                  [f \in DOMAIN c.heap[c.ref] |->
                      IF f \in Range(qis)
                      THEN suppress_enterprise_info(c.heap[c.ref][f])
                      ELSE c.heap[c.ref][f]]],
     ref |-> c.ref]

\* The suppression stopping after the first record of the pool.
suppress_first_only(h, ids, qis) ==
    IF ids = <<>> THEN [raised |-> FALSE, heap |-> h, refs |-> <<>>]
    ELSE [raised |-> FALSE,
          heap |-> suppress_copy(copy(h, Head(ids)), qis).heap,
          refs |-> <<suppress_copy(copy(h, Head(ids)), qis).ref>> \o Tail(ids)]

RECURSIVE suppress_all(_, _, _)
RECURSIVE suppress_rest(_, _, _)
suppress_rest(one, ids, qis) ==
    Prepend(one.ref, suppress_all(one.heap, ids, qis))

suppress_all(h, ids, qis) ==
    IF ids = <<>> THEN [raised |-> FALSE, heap |-> h, refs |-> <<>>]
    ELSE suppress_rest(suppress_copy(copy(h, Head(ids)), qis), Tail(ids), qis)

\* The records handled replacing the result instead of being added to it.
Extend_dropping_result(result, more) == more

\* result.extend(...)
Extend(result, more) ==
    [raised |-> more.raised, heap |-> more.heap, refs |-> result \o more.refs]

\* handle_small_classes  [raised, heap, refs]
handle_small_classes(h, classes, qis, levels, kk) ==
    IF Pool(classes, kk, FALSE) = <<>>
    THEN [raised |-> FALSE, heap |-> h, refs |-> Pool(classes, kk, TRUE)]
    ELSE IF Len(Pool(classes, kk, FALSE)) >= kk
    THEN Extend(Pool(classes, kk, TRUE),
                generalize_all(h, Pool(classes, kk, FALSE), qis, enhance_levels(levels)))
    ELSE Extend(Pool(classes, kk, TRUE),
                suppress_all(h, Pool(classes, kk, FALSE), qis))

\* ------------------------------------------------------------------------
\* Information-loss estimator.  A loss is an exact fraction [num, den].

RECURSIVE GCD(_, _)
GCD(a, b) == IF b = 0 THEN a ELSE GCD(b, a % b)

Rat(a, b) == LET g == GCD(a, b) IN [num |-> a \div g, den |-> b \div g]
RatZero == [num |-> 0, den |-> 1]
RatOne == [num |-> 1, den |-> 1]
RatAdd(x, y) == Rat(x.num * y.den + y.num * x.den, x.den * y.den)
RatLeq(x, y) == x.num * y.den <= y.num * x.den

\* max - min of the values of a numeric column, 1 when it is not positive.
value_range(values) ==
    IF SetMax(values) - SetMin(values) > 0 THEN SetMax(values) - SetMin(values) ELSE 1

\* The rows holding a non-null value of the column.
present(records, qi) == {i \in 1..Len(records) : Get(records[i], qi, None) # None}

\* _get_global_ranges: the range of every column that has a value and all of
\* whose non-null values float() accepts; any other column has no entry.
get_global_ranges(records, qis) ==
    [qi \in {q \in Range(qis) :
                /\ present(records, q) # {}
                /\ \A i \in present(records, q) : float(records[i][q]).ok} |->
        value_range({float(records[i][qi]).n : i \in present(records, qi)})]

RECURSIVE SkipBlanks(_)
SkipBlanks(s) == IF s # <<>> /\ Head(s) = " " THEN SkipBlanks(Tail(s)) ELSE s

\* The group (\d+\.?\d*) at the start of s: [ok, val, rest].  The numerals of
\* the model have no fractional digits other than zeros.
NumberEnd(s, d) ==
    IF d < Len(s) /\ s[d + 1] = "." THEN d + 1 + DigitRun(SubSeq(s, d + 2, Len(s))) ELSE d

MatchDigits(s, d) ==
    IF d = 0 THEN [ok |-> FALSE, val |-> 0, rest |-> s]
    ELSE [ok |-> TRUE, val |-> DigitsVal(SubSeq(s, 1, d)),
          rest |-> SubSeq(s, NumberEnd(s, d) + 1, Len(s))]

MatchNumber(s) == MatchDigits(s, DigitRun(s))

AbsDiff(a, b) == IF a >= b THEN a - b ELSE b - a

\* _parse_interval_width: re.match of \[?(\d+\.?\d*)\s*[-~]\s*(\d+\.?\d*)]?
\* and |high - low|, 0 without a match.
MatchHigh(low, high) == IF high.ok THEN AbsDiff(high.val, low.val) ELSE 0

MatchSeparator(low, s1) ==
    IF low.ok /\ s1 # <<>> /\ Head(s1) \in {"-", "~"}
    THEN MatchHigh(low, MatchNumber(SkipBlanks(Tail(s1))))
    ELSE 0

MatchLow(low) == MatchSeparator(low, SkipBlanks(low.rest))

parse_interval_width(val_str) ==
    MatchLow(MatchNumber(IF val_str # <<>> /\ Head(val_str) = "["
                         THEN Tail(val_str) ELSE val_str))

full_masks == { <<"*">>, <<"?">>, <<"N", "/", "A">>, <<"n", "a", "n">>,
                <<"N", "o", "n", "e">>, <<>> }

CountStars(s) == Cardinality({i \in 1..Len(s) : s[i] = "*"})

\* The loss of a cell without the cap min(loss, 1.0).
string_loss_uncapped(orig_val, anon_val, numeric, range, interval_width) ==
    IF orig_val = anon_val THEN RatZero
    ELSE IF anon_val \in full_masks THEN RatOne
    ELSE IF numeric /\ interval_width > 0 THEN Rat(interval_width, range)
    ELSE IF CountStars(anon_val) > 0 THEN Rat(CountStars(anon_val), Len(anon_val))
    ELSE RatOne

\* The loss of one (record, quasi-identifier) cell, from the two strings.
string_loss(orig_val, anon_val, numeric, range, interval_width) ==
    IF orig_val = anon_val THEN RatZero
    ELSE IF anon_val \in full_masks THEN RatOne
    ELSE IF numeric /\ interval_width > 0
    THEN (IF interval_width <= range THEN Rat(interval_width, range) ELSE RatOne)
    ELSE IF CountStars(anon_val) > 0 THEN Rat(CountStars(anon_val), Len(anon_val))
    ELSE RatOne

anon_loss(orig_val, anon_val, numeric, range) ==
    string_loss(orig_val, anon_val, numeric, range, parse_interval_width(anon_val))

cell_loss(orig, anon, qi, global_ranges) ==
    anon_loss(PyStr(orig[qi]), PyStr(anon[qi]), qi \in DOMAIN global_ranges,
              Get(global_ranges, qi, 1))

\* The cells compute_information_loss counts: pairs <<record, position of
\* the quasi-identifier>> whose field both records have, over zip(...).
loss_cells(original_data, anonymized, qis) ==
    LET n == IF Len(original_data) < Len(anonymized)
             THEN Len(original_data) ELSE Len(anonymized)
    IN  {c \in (1..n) \X (1..Len(qis)) :
            /\ qis[c[2]] \in DOMAIN original_data[c[1]]
            /\ qis[c[2]] \in DOMAIN anonymized[c[1]]}

RECURSIVE RatSumSeq(_)
RatSumSeq(s) == IF s = <<>> THEN RatZero ELSE RatAdd(Head(s), RatSumSeq(Tail(s)))

\* total_loss / total_cells
RatDiv(x, n) == Rat(x.num, x.den * n)

\* The losses of the cells in the order of the two loops, 0 for a pair that
\* is no cell.
cell_losses(original_data, anonymized, qis, cells, global_ranges) ==
    [t \in 1..(Len(original_data) * Len(qis)) |->
        IF <<((t - 1) \div Len(qis)) + 1, ((t - 1) % Len(qis)) + 1>> \in cells
        THEN cell_loss(original_data[((t - 1) \div Len(qis)) + 1],
                       anonymized[((t - 1) \div Len(qis)) + 1],
                       qis[((t - 1) % Len(qis)) + 1], global_ranges)
        ELSE RatZero]

total_over_cells(original_data, anonymized, qis, cells) ==
    IF original_data = <<>> \/ anonymized = <<>> \/ cells = {} THEN RatZero
    ELSE RatDiv(RatSumSeq(cell_losses(original_data, anonymized, qis, cells,
                                      get_global_ranges(original_data, qis))),
                Cardinality(cells))

\* compute_information_loss: total loss / total cells, 0 without a cell.
compute_information_loss(original_data, anonymized, qis) ==
    total_over_cells(original_data, anonymized, qis,
                     loss_cells(original_data, anonymized, qis))

\* ------------------------------------------------------------------------
\* DifferentialPrivacyService.  A real number is an integer count of 1/Unit,
\* and every real of the model is a multiple of 1/Unit.  A noise draw is a
\* sample of a continuous distribution centred at 0: any real when the scale
\* is positive, 0 when it is 0, and numpy raises ValueError when it is
\* negative.

Fix(x) == x * Unit
Real(x) == [t |-> "real", n |-> x, s |-> <<>>]

\* The draws explored: far below, just below, just above, far above 0.
NoiseSamples == {-Fix(MaxNoise), -(Unit \div 2), Unit \div 2, Fix(MaxNoise)}

Max2(a, b) == IF a >= b THEN a ELSE b
Min2(a, b) == IF a <= b THEN a ELSE b

\* round(a / b), b > 0: to the nearest integer, a tie to the even one.
RoundQuotient(q, twice_r, b) ==
    IF twice_r < b THEN q
    ELSE IF twice_r > b THEN q + 1
    ELSE IF q % 2 = 0 THEN q ELSE q + 1
RoundDiv(a, b) == RoundQuotient(a \div b, 2 * (a % b), b)

\* round(x) of a real, an integer.
PyRound(x) == RoundDiv(x, Unit)
\* round(x, 4) of a real, in ten-thousandths.
Round4(x) == RoundDiv(x * 10000, Unit)

\* float(record[field]) as a real.  [ok, n]
to_real(f) == [ok |-> f.ok, n |-> Fix(f.n)]
float_real(v) == IF v.t = "real" THEN [ok |-> TRUE, n |-> v.n] ELSE to_real(float(v))

\* np.random.laplace(0, scale) / np.random.normal(0, sigma) added to the true
\* value, z the sample drawn.  [raised, value]
noisy(true_value, scale_sign, z) ==
    [raised |-> scale_sign < 0,
     value |-> IF scale_sign > 0 THEN true_value + z ELSE true_value]

\* scale = sensitivity / epsilon has the sign of the sensitivity (epsilon > 0).
laplace_mechanism(true_value, sensitivity, z) == noisy(true_value, sensitivity, z)

\* sigma = sensitivity * sqrt(2 * ln(1.25 / delta)) / epsilon, likewise.
gaussian_mechanism(true_value, sensitivity, z) == noisy(true_value, sensitivity, z)

\* max(min_val, min(max_val, x)) when the field has bounds.
clip(x, bounds) == IF bounds = <<>> THEN x ELSE Max2(bounds[1], Min2(bounds[2], x))

clip_outcome(r, bounds) ==
    [raised |-> r.raised, value |-> IF r.raised THEN 0 ELSE clip(r.value, bounds)]

\* The instance an operation runs on.
Self == [epsilon |-> epsilon, field_bounds |-> field_bounds,
         field_sensitivity |-> field_sensitivity]

\* add_noise_to_field for a value that is not None.  [raised, value]
add_noise_to_field(self, value, field_name, mechanism, z) ==
    IF mechanism = "laplace"
    THEN clip_outcome(laplace_mechanism(value, Get(self.field_sensitivity, field_name, Fix(1)), z),
                      Get(self.field_bounds, field_name, <<>>))
    ELSE IF mechanism = "gaussian"
    THEN clip_outcome(gaussian_mechanism(value, Get(self.field_sensitivity, field_name, Fix(1)), z),
                      Get(self.field_bounds, field_name, <<>>))
    ELSE [raised |-> TRUE, value |-> 0]

\* The query_* operations take any other mechanism name as 'gaussian'.
query_noise(mechanism, true_value, sensitivity, z) ==
    IF mechanism = "laplace" THEN laplace_mechanism(true_value, sensitivity, z)
    ELSE gaussian_mechanism(true_value, sensitivity, z)

\* The records passing filter_condition (a dict, empty or None for no filter):
\* all(record.get(k) == v for k, v in filter_condition.items())
Passes(record, filter_condition) ==
    \A f \in DOMAIN filter_condition : Get(record, f, None) = filter_condition[f]

filtered(h, ids, filter_condition) ==
    LET Keep(id) == Passes(h[id], filter_condition) IN SelectSeq(ids, Keep)

\* The values of a field over some records that have it and hold no None.
field_values(h, ids, field) ==
    LET Has(id) == Get(h[id], field, None) # None
    IN  [i \in 1..Len(SelectSeq(ids, Has)) |-> h[SelectSeq(ids, Has)[i]][field]]

RECURSIVE SeqSum(_)
SeqSum(s) == IF s = <<>> THEN 0 ELSE Head(s) + SeqSum(Tail(s))

\* sorted(values), values reals.
RECURSIVE Sorted(_)
Insert(x, s) ==
    LET before == {i \in 1..Len(s) : s[i] <= x}
        n == Cardinality(before)
    IN  SubSeq(s, 1, n) \o <<x>> \o SubSeq(s, n + 1, Len(s))
Sorted(s) == IF s = <<>> THEN <<>> ELSE Insert(Head(s), Sorted(Tail(s)))

\* ------------------------------------------------------------------------
\* The operations of DifferentialPrivacyService.  Each yields
\* [raised, value, info]; privatize also the heap with the private records.

Abs(x) == IF x < 0 THEN -x ELSE x

Failed == [raised |-> TRUE, value |-> <<>>, info |-> <<>>]
Returned(value, info) == [raised |-> FALSE, value |-> value, info |-> info]
NoValidData(value) == Returned(value, [error |-> "No valid data"])

\* [float(record[field]) for record in records if field in record and
\*  record[field] is not None]  [ok, values]
float_values(raw) ==
    [ok |-> \A i \in 1..Len(raw) : float_real(raw[i]).ok,
     values |-> [i \in 1..Len(raw) |-> float_real(raw[i]).n]]

\* The sensitivity always taken from the values at hand.
sensitivity_from_data(field, values) == SetMax(Range(values)) - SetMin(Range(values))

\* self.field_sensitivity.get(field, max(values) - min(values))
sensitivity_of(field, values) ==
    Get(field_sensitivity, field, SetMax(Range(values)) - SetMin(Range(values)))

\* query_count without the max(0, ...).
count_result_unclipped(true_count, n, mechanism) ==
    IF n.raised THEN Failed
    ELSE Returned(PyRound(n.value),
                  [query_type |-> "count", true_count |-> true_count,
                   noisy_count |-> PyRound(n.value),
                   noise |-> PyRound(n.value) - true_count,
                   mechanism |-> mechanism, epsilon |-> epsilon])

\* query_count
count_result(true_count, n, mechanism) ==
    IF n.raised THEN Failed
    ELSE Returned(Max2(0, PyRound(n.value)),
                  [query_type |-> "count", true_count |-> true_count,
                   noisy_count |-> Max2(0, PyRound(n.value)),
                   noise |-> Max2(0, PyRound(n.value)) - true_count,
                   mechanism |-> mechanism, epsilon |-> epsilon])
count_of(true_count, mechanism, z) ==
    count_result(true_count, query_noise(mechanism, Fix(true_count), Fix(1), z), mechanism)
query_count(h, ids, filter_condition, mechanism, z) ==
    count_of(Len(filtered(h, ids, filter_condition)), mechanism, z)

\* query_sum
sum_result(field, values, sensitivity, n, mechanism) ==
    IF n.raised THEN Failed
    ELSE Returned(n.value,
                  [query_type |-> "sum", field |-> field,
                   true_sum |-> Round4(SeqSum(values)), noisy_sum |-> Round4(n.value),
                   count |-> Len(values), mechanism |-> mechanism,
                   epsilon |-> epsilon, sensitivity |-> sensitivity])
sum_noised(field, values, sensitivity, mechanism, z) ==
    sum_result(field, values, sensitivity,
               query_noise(mechanism, SeqSum(values), sensitivity, z), mechanism)
sum_of(field, f, mechanism, z) ==
    IF ~f.ok THEN Failed
    ELSE IF f.values = <<>> THEN NoValidData(0)
    ELSE sum_noised(field, f.values, sensitivity_of(field, f.values), mechanism, z)
query_sum(h, ids, field, filter_condition, mechanism, z) ==
    sum_of(field, float_values(field_values(h, filtered(h, ids, filter_condition), field)),
           mechanism, z)

\* query_average
average_result(field, true_avg, count, sensitivity, n, mechanism) ==
    IF n.raised THEN Failed
    ELSE Returned(n.value,
                  [query_type |-> "average", field |-> field,
                   true_average |-> Round4(true_avg), noisy_average |-> Round4(n.value),
                   count |-> count, mechanism |-> mechanism,
                   epsilon |-> epsilon, sensitivity |-> sensitivity])
average_noised(field, true_avg, count, sensitivity, mechanism, z) ==
    average_result(field, true_avg, count, sensitivity,
                   clip_outcome(query_noise(mechanism, true_avg, sensitivity, z),
                                Get(field_bounds, field, <<>>)),
                   mechanism)
\* query_average with the field's range not divided by the count.
average_of_undivided(field, f, mechanism, z) ==
    IF ~f.ok THEN Failed
    ELSE IF f.values = <<>> THEN NoValidData(0)
    ELSE average_noised(field, SeqSum(f.values) \div Len(f.values), Len(f.values),
                        sensitivity_of(field, f.values), mechanism, z)

average_of(field, f, mechanism, z) ==
    IF ~f.ok THEN Failed
    ELSE IF f.values = <<>> THEN NoValidData(0)
    ELSE average_noised(field, SeqSum(f.values) \div Len(f.values), Len(f.values),
                        sensitivity_of(field, f.values) \div Len(f.values), mechanism, z)
query_average(h, ids, field, filter_condition, mechanism, z) ==
    average_of(field, float_values(field_values(h, filtered(h, ids, filter_condition), field)),
               mechanism, z)

\* query_histogram.  bins is [given, list], given FALSE for None; the
\* histogram is a dict from bin to count.  sorted() raises TypeError on a mix
\* of strings and numbers.
Unsortable(values) ==
    /\ \E i \in 1..Len(values) : values[i].t = "str"
    /\ \E i \in 1..Len(values) : values[i].t # "str"
Occurrences(values, b) == Cardinality({i \in 1..Len(values) : values[i] = b})
bin_count(true_count, mechanism, z) ==
    Max2(0, PyRound(query_noise(mechanism, Fix(true_count), Fix(1), z).value))
histogram_result(field, values, keys, nbins, mechanism, z) ==
    Returned([b \in keys |-> bin_count(Occurrences(values, b), mechanism, z[b])],
             [query_type |-> "histogram", field |-> field, bins |-> nbins,
              total_count |-> Cardinality({i \in 1..Len(values) : values[i] \in keys}),
              mechanism |-> mechanism, epsilon |-> epsilon])
histogram_keys(values, bins) == IF bins.given THEN Range(bins.list) ELSE Range(values)
histogram_of(field, values, bins, mechanism, z) ==
    IF values = <<>> THEN NoValidData(<<>>)
    ELSE IF ~bins.given /\ Unsortable(values) THEN Failed
    ELSE histogram_result(field, values, histogram_keys(values, bins),
                          IF bins.given THEN Len(bins.list) ELSE Cardinality(Range(values)),
                          mechanism, z)
query_histogram(h, ids, field, bins, mechanism, z) ==
    histogram_of(field, field_values(h, ids, field), bins, mechanism, z)

\* query_percentile.  The result maps each percentile to round(value, 4), in
\* ten-thousandths.
percentile_index(n, p) == Min2((n * p) \div 100, n - 1)
percentile_cell(field, value, sensitivity, mechanism, z) ==
    clip_outcome(query_noise(mechanism, value, sensitivity, z), Get(field_bounds, field, <<>>))
percentile_result(field, sorted_values, percentiles, sensitivity, mechanism, z) ==
    IF sensitivity < 0 /\ percentiles # <<>> THEN Failed
    ELSE Returned([p \in Range(percentiles) |->
                      Round4(percentile_cell(field,
                                 sorted_values[percentile_index(Len(sorted_values), p) + 1],
                                 sensitivity, mechanism, z[p]).value)],
                  [query_type |-> "percentile", field |-> field,
                   percentiles |-> percentiles, count |-> Len(sorted_values),
                   mechanism |-> mechanism, epsilon |-> epsilon])
percentile_of(field, f, percentiles, mechanism, z) ==
    IF ~f.ok THEN Failed
    ELSE IF f.values = <<>> THEN NoValidData(<<>>)
    ELSE percentile_result(field, Sorted(f.values), percentiles,
                           sensitivity_of(field, f.values), mechanism, z)
query_percentile(h, ids, field, percentiles, mechanism, z) ==
    percentile_of(field, float_values(field_values(h, ids, field)), percentiles, mechanism, z)

\* privatize_enterprise_data.  z maps each cell <<i, field>> that is noised to
\* the sample drawn for it.
noised_fields(record, numeric_fields) ==
    {f \in Range(numeric_fields) : f \in DOMAIN record /\ record[f] # None}

noise_value(self, v, field, mechanism, z) ==
    IF ~v.ok THEN [raised |-> TRUE, value |-> 0]
    ELSE add_noise_to_field(self, v.n, field, mechanism, z)
noise_cell(self, record, field, mechanism, z) ==
    noise_value(self, float_real(record[field]), field, mechanism, z)

private_fields(self, record, fields, mechanism, z, i) ==
    [f \in DOMAIN record |->
        IF f \in fields THEN Real(noise_cell(self, record, f, mechanism, z[<<i, f>>]).value)
        ELSE record[f]]

\* One round of the loop over data: private_record = record.copy(), then its
\* noised fields assigned.  [raised, heap, ref]
privatize_one(self, c, record, fields, mechanism, z, i) ==
    [raised |-> \E f \in fields : noise_cell(self, record, f, mechanism, z[<<i, f>>]).raised,
     heap |-> [c.heap EXCEPT ![c.ref] = private_fields(self, record, fields, mechanism, z, i)],
     ref |-> c.ref]

RECURSIVE privatize_all(_, _, _, _, _, _, _)
privatize_rest(self, one, ids, numeric_fields, mechanism, z, i) ==
    IF one.raised THEN [raised |-> TRUE, heap |-> one.heap, refs |-> <<>>]
    ELSE Prepend(one.ref, privatize_all(self, one.heap, ids, numeric_fields, mechanism, z, i + 1))
privatize_all(self, h, ids, numeric_fields, mechanism, z, i) ==
    IF ids = <<>> THEN [raised |-> FALSE, heap |-> h, refs |-> <<>>]
    ELSE privatize_rest(self, privatize_one(self, copy(h, Head(ids)), h[Head(ids)],
                                      noised_fields(h[Head(ids)], numeric_fields),
                                      mechanism, z, i),
                        Tail(ids), numeric_fields, mechanism, z, i)

\* _compute_statistics, without the figures that are no multiple of 1/Unit
\* (mae, rmse, relative_error).  Differences are in ten-thousandths.
differences(originals, privates, field) ==
    {Abs(privates[i][field].n - float_real(originals[i][field]).n) :
        i \in {j \in 1..Len(originals) : field \in noised_fields(originals[j], <<field>>)}}
compute_statistics(self, originals, privates, numeric_fields, mechanism) ==
    [epsilon |-> self.epsilon, mechanism |-> mechanism,
     field_metrics |->
        [f \in {g \in Range(numeric_fields) : differences(originals, privates, g) # {}} |->
            [max_difference |-> Round4(SetMax(differences(originals, privates, f))),
             min_difference |-> Round4(SetMin(differences(originals, privates, f))),
             sensitivity |-> Get(self.field_sensitivity, f, Fix(1))]]]

\* The custom bounds used for nothing: the tables left as they were.
update_bounds_forgotten(self, custom_bounds) == self

\* The bounds updated and the sensitivities left as they were.
update_bounds_only(self, custom_bounds) ==
    [epsilon |-> self.epsilon,
     field_bounds |->
        [f \in DOMAIN self.field_bounds \cup DOMAIN custom_bounds |->
            IF f \in DOMAIN custom_bounds THEN custom_bounds[f] ELSE self.field_bounds[f]],
     field_sensitivity |-> self.field_sensitivity]

\* self.field_bounds.update(custom_bounds) and the sensitivity of each of its
\* fields set to max_val - min_val.
update_bounds(self, custom_bounds) ==
    [epsilon |-> self.epsilon,
     field_bounds |->
        [f \in DOMAIN self.field_bounds \cup DOMAIN custom_bounds |->
            IF f \in DOMAIN custom_bounds THEN custom_bounds[f] ELSE self.field_bounds[f]],
     field_sensitivity |->
        [f \in DOMAIN self.field_sensitivity \cup DOMAIN custom_bounds |->
            IF f \in DOMAIN custom_bounds THEN custom_bounds[f][2] - custom_bounds[f][1]
            ELSE self.field_sensitivity[f]]]

\* The body of privatize_enterprise_data after the update of the bounds.
\* [raised, heap, value, info]
privatized(self, originals, r, numeric_fields, mechanism) ==
    IF r.raised THEN [raised |-> TRUE, heap |-> r.heap, value |-> <<>>, info |-> <<>>]
    ELSE [raised |-> FALSE, heap |-> r.heap, value |-> r.refs,
          info |-> compute_statistics(self, originals, Deref(r.heap, r.refs),
                                      numeric_fields, mechanism)]
privatize_enterprise_data(self, h, ids, numeric_fields, mechanism, z) ==
    IF ids = <<>>
    THEN [raised |-> FALSE, heap |-> h, value |-> <<>>, info |-> [error |-> "No data provided"]]
    ELSE privatized(self, Deref(h, ids),
                    privatize_all(self, h, ids, numeric_fields, mechanism, z, 1),
                    numeric_fields, mechanism)

\* ------------------------------------------------------------------------
\* evaluate_privacy_budget.  The figures rounded to 4 places are in
\* ten-thousandths.

STRONG_PRIVACY == <<"u5f3a", "u9690", "u79c1", "u4fdd", "u62a4">>
MODERATE_PRIVACY == <<"u4e2d", "u7b49", "u9690", "u79c1", "u4fdd", "u62a4">>
WEAK_PRIVACY == <<"u5f31", "u9690", "u79c1", "u4fdd", "u62a4">>

\* Lines 573-579.
privacy_level(total_epsilon) ==
    IF total_epsilon < Fix(1) THEN STRONG_PRIVACY
    ELSE IF total_epsilon < Fix(5) THEN MODERATE_PRIVACY
    ELSE WEAK_PRIVACY

BUDGET_AMPLE ==
    <<"u9690", "u79c1", "u9884", "u7b97", "u5145", "u8db3", "uff0c", "u53ef",
      "u4ee5", "u7ee7", "u7eed", "u67e5", "u8be2">>
BUDGET_MODERATE ==
    <<"u9690", "u79c1", "u9884", "u7b97", "u9002", "u4e2d", "uff0c", "u5efa",
      "u8bae", "u8c28", "u614e", "u8fdb", "u884c", "u540e", "u7eed", "u67e5",
      "u8be2">>
BUDGET_LOW ==
    <<"u9690", "u79c1", "u9884", "u7b97", "u8f83", "u4f4e", "uff0c", "u5efa",
      "u8bae", "u51cf", "u5c11", "u67e5", "u8be2", "u9891", "u7387", "u6216",
      "u63d0", "u9ad8", "e", "p", "s", "i", "l", "o", "n", "u503c">>
BUDGET_EXHAUSTED ==
    <<"u9690", "u79c1", "u9884", "u7b97", "u8017", "u5c3d", "uff0c", "u4e0d",
      "u5efa", "u8bae", "u7ee7", "u7eed", "u67e5", "u8be2", "uff0c", "u8003",
      "u8651", "u91cd", "u65b0", "u8bc4", "u4f30", "u9690", "u79c1", "u9700",
      "u6c42">>

get_privacy_recommendation(total_epsilon) ==
    IF total_epsilon < Fix(1) THEN BUDGET_AMPLE
    ELSE IF total_epsilon < Fix(5) THEN BUDGET_MODERATE
    ELSE IF total_epsilon < Fix(10) THEN BUDGET_LOW
    ELSE BUDGET_EXHAUSTED

\* total_budget = 10.0
total_budget == Fix(10)

\* int(x / y), y > 0: the quotient truncated towards 0.
TruncDiv(x, y) == IF x >= 0 THEN x \div y ELSE -((-x) \div y)

\* The remaining budget without the max(0, ...).
remaining_budget_unclipped(total_epsilon) == Round4(total_budget - total_epsilon)

\* Line 590: max(0, round(total_budget - total_epsilon, 4))
remaining_budget(total_epsilon) == Max2(0, Round4(total_budget - total_epsilon))

budget_report(eps, num_queries, total_epsilon) ==
    [epsilon_per_query |-> eps,
     num_queries |-> num_queries,
     total_epsilon_consumed |-> Round4(total_epsilon),
     privacy_level |-> privacy_level(total_epsilon),
     remaining_budget |-> remaining_budget(total_epsilon),
     remaining_queries |-> Max2(0, TruncDiv(total_budget - total_epsilon, eps)),
     recommendation |-> get_privacy_recommendation(total_epsilon)]

evaluate_privacy_budget(self, num_queries) ==
    budget_report(self.epsilon, num_queries, self.epsilon * num_queries)
\* ------------------------------------------------------------------------
\* The states of the parts of the model that are not running.

NoDpReturn == [op |-> "", args |-> <<>>, raised |-> FALSE, value |-> <<>>, info |-> <<>>,
               base |-> 0]

\* __init__
default_bounds ==
    [revenue_2023 |-> <<Fix(0), Fix(1000)>>,
     domestic_market_share |-> <<Fix(0), Fix(100)>>,
     r_and_d_ratio |-> <<Fix(0), Fix(30)>>]
default_sensitivity ==
    [revenue_2023 |-> Fix(1000), domestic_market_share |-> Fix(100), r_and_d_ratio |-> Fix(30)]

\* The service constructed with privacy budget eps and the default delta,
\* 1e-5; no call is running on it.
Constructed(eps) ==
    /\ epsilon = eps
    /\ delta = Rat(1, 100000)
    /\ threads = <<>>
    /\ field_bounds = default_bounds
    /\ field_sensitivity = default_sensitivity
    /\ dp_ret = NoDpReturn

\* DifferentialPrivacyService(): epsilon = 1.0
DpConstructed == Constructed(Fix(1))

NoLossInput == [original_data |-> <<>>, anonymized |-> <<>>]
NoLossOutput == [done |-> FALSE, cells |-> {}, losses |-> <<>>, score |-> RatZero]

LossIdle ==
    /\ l_in = NoLossInput
    /\ l_out = NoLossOutput

NoInput == [field |-> "", v1 |-> None, v2 |-> None, level |-> 0]
NoOutput == [done |-> FALSE, a1 |-> None, a2 |-> None, b1 |-> None, b2 |-> None]

NoRecords ==
    /\ heap = <<>>
    /\ data = <<>>
    /\ caller_records = <<>>

\* No anonymize call is in progress.
AnonIdle ==
    /\ k = 0
    /\ quasi_identifiers = <<>>
    /\ generalization_levels = <<>>
    /\ max_iterations = 0
    /\ pc = "idle"
    /\ iteration = 0
    /\ anonymized_data = <<>>
    /\ current_anonymized = <<>>
    /\ ret = NoReturn
    /\ rounds = 0

GenIdle ==
    /\ g_in = NoInput
    /\ g_out = NoOutput

\* ------------------------------------------------------------------------
\* ------------------------------------------------------------------------
\* The taxonomy as a pure function: inputs drawn from bounded sets, one
\* action applying generalize to two values at a level and at the next one.

GenFields == {"revenue_2023", "domestic_market_share", "r_and_d_ratio",
              "chain_stage", "headquarters", "sensitivity_level", "company_name"}

GenNumbers == {-1, 0, 3, 7, 12, 15, 30, 70, 200, 600}

GenStrings ==
    { <<>>, <<"a">>, <<"a", "b", "c">>, <<"a", "b", "c", "d">>,
      <<"a", "b", "c", "d", "e">>, <<"a", "b", "x", "y", "z">>, <<"1", "2">>,
      <<"u5317", "u4eac">>, <<" ", "u5317", "u4eac">>, <<"u82cf", "u5dde">>,
      <<"u5357", "u4eac">>, <<"u6df1", "u5733">>, <<"u62c9", "u8428">>,
      <<"u4e0a", "u6e38", "-", "u539f", "u6750", "u6599">>,
      <<"u4e0a", "u6e38", "-", "u8bbe", "u5907">>,
      <<"u4e0a", "u6e38", "-", "u7814", "u53d1">>,
      <<"u4e2d", "u6e38", "-", "u5236", "u9020">>,
      <<"u9ad8">>, <<"u8f83", "u9ad8">>, <<"u4f4e">>,
      MASK, UNKNOWN, revenue_labels_1[2] }

GenValues == {None} \cup {Num(x) : x \in GenNumbers} \cup {Str(s) : s \in GenStrings}

GenInit ==
    /\ g_in \in [field : GenFields, v1 : GenValues, v2 : GenValues, level : 1..MaxLevel]
    /\ g_out = NoOutput
    /\ LossIdle
    /\ NoRecords
    /\ AnonIdle
    /\ DpConstructed

Generalize ==
    /\ ~g_out.done
    /\ g_out' = [done |-> TRUE,
                 a1 |-> generalize(g_in.field, g_in.v1, g_in.level),
                 a2 |-> generalize(g_in.field, g_in.v2, g_in.level),
                 b1 |-> generalize(g_in.field, g_in.v1, g_in.level + 1),
                 b2 |-> generalize(g_in.field, g_in.v2, g_in.level + 1)]
    /\ UNCHANGED g_in
    /\ UNCHANGED <<lossVars, heapVars, anonVars, dpVars>>

GenNext == Generalize

SpecGen == GenInit /\ [][GenNext]_vars

\* ------------------------------------------------------------------------
\* KAnonymityService.anonymize as a state machine over one call.

\* The validation of the quasi-identifiers left out.
missing_identifier_unchecked(first, qis) == FALSE

\* Lines 521-523: some quasi-identifier is no field of the first record.
missing_identifier(first, qis) == \E i \in 1..Len(qis) : qis[i] \notin DOMAIN first

\* The loop test letting one round more through.
loop_continues_once_more(it, max_it) == it <= max_it

\* Line 529: while iteration < max_iterations
loop_continues(it, max_it) == it < max_it

\* Lines 514-527: the two error returns, the default levels, the list copy.
AnonymizeEnter ==
    /\ pc = "call"
    /\ IF data = <<>>
       THEN /\ pc' = "error"
            /\ ret' = [returned |-> TRUE, records |-> <<>>,
                          stats |-> [error |-> "No data provided"]]
            /\ UNCHANGED <<generalization_levels, anonymized_data>>
       ELSE IF missing_identifier(heap[data[1]], quasi_identifiers)
       THEN /\ pc' = "error"
            /\ ret' = [returned |-> TRUE, records |-> <<>>,
                          stats |-> [error |-> "Quasi-identifier not found in data"]]
            /\ UNCHANGED <<generalization_levels, anonymized_data>>
       ELSE /\ pc' = "loop"
            /\ generalization_levels' =
                   IF DOMAIN generalization_levels = {}
                   THEN [f \in Range(quasi_identifiers) |-> 1]
                   ELSE generalization_levels
            /\ anonymized_data' = data
            /\ UNCHANGED ret
    /\ UNCHANGED <<heap, data, caller_records, k, quasi_identifiers, max_iterations,
                   iteration, current_anonymized, rounds>>
    /\ UNCHANGED <<genVars, lossVars, dpVars>>

\* Lines 529-538: the loop test and step 1, generalizing every record of
\* anonymized_data at the current levels.
ApplyOutcome(g) ==
    /\ heap' = g.heap
    /\ current_anonymized' = g.refs
    /\ pc' = IF g.raised THEN "raised" ELSE "validate"

ApplyRound ==
    /\ pc = "loop"
    /\ loop_continues(iteration, max_iterations)
    /\ ApplyOutcome(generalize_all(heap, anonymized_data, quasi_identifiers,
                                   generalization_levels))
    /\ rounds' = rounds + 1
    /\ UNCHANGED <<data, caller_records, k, quasi_identifiers, generalization_levels,
                   max_iterations, iteration, anonymized_data, ret>>
    /\ UNCHANGED <<genVars, lossVars, dpVars>>

\* Lines 540-552: steps 2 and 3, grouping and validation; success leaves the loop.
ValidateOutcome(v) ==
    IF v.is_k_anonymous
    THEN /\ anonymized_data' = current_anonymized
         /\ pc' = "final"
    ELSE /\ pc' = "handle"
         /\ UNCHANGED anonymized_data

ValidateRound ==
    /\ pc = "validate"
    /\ ValidateOutcome(validate_k_anonymity(
           build_equivalence_classes(heap, current_anonymized, quasi_identifiers), k))
    /\ UNCHANGED <<heap, data, caller_records, k, quasi_identifiers,
                   generalization_levels, max_iterations, iteration,
                   current_anonymized, ret, rounds>>
    /\ UNCHANGED <<genVars, lossVars, dpVars>>

\* Lines 554-564: step 4, handle_small_classes, then the levels raised for
\* the next round and the round counted.
HandleOutcome(r) ==
    /\ heap' = r.heap
    /\ IF r.raised
       THEN /\ pc' = "raised"
            /\ UNCHANGED <<anonymized_data, generalization_levels, iteration>>
       ELSE /\ pc' = "loop"
            /\ anonymized_data' = r.refs
            /\ generalization_levels' = enhance_levels(generalization_levels)
            /\ iteration' = iteration + 1

HandleRound ==
    /\ pc = "handle"
    /\ HandleOutcome(handle_small_classes(
           heap,
           build_equivalence_classes(heap, current_anonymized, quasi_identifiers),
           quasi_identifiers, generalization_levels, k))
    /\ UNCHANGED <<data, caller_records, k, quasi_identifiers, max_iterations,
                   current_anonymized, ret, rounds>>
    /\ UNCHANGED <<genVars, lossVars, dpVars>>

\* Line 529: the loop ends with the budget used up.
LoopExit ==
    /\ pc = "loop"
    /\ ~loop_continues(iteration, max_iterations)
    /\ pc' = "final"
    /\ UNCHANGED <<heap, data, caller_records, k, quasi_identifiers,
                   generalization_levels, max_iterations, iteration,
                   anonymized_data, current_anonymized, ret, rounds>>
    /\ UNCHANGED <<genVars, lossVars, dpVars>>

\* Lines 566-590: the final validation of the records returned, the
\* information loss and the statistics.
Stats(final_eq_classes, v, info_loss) ==
    [original_records |-> Len(data),
     anonymized_records |-> Len(anonymized_data),
     equivalence_classes |-> Len(final_eq_classes),
     min_class_size |-> v.min_class_size,
     max_class_size |-> IF final_eq_classes # <<>>
                        THEN SetMax(class_sizes(final_eq_classes)) ELSE 0,
     avg_class_size |-> IF final_eq_classes # <<>>
                        THEN Rat(Len(anonymized_data), Len(final_eq_classes))
                        ELSE RatZero,
     k_value |-> k,
     is_k_anonymous |-> v.is_k_anonymous,
     violated_classes |-> v.violated_classes,
     information_loss |-> info_loss,
     iterations |-> iteration + 1,
     final_generalization_levels |-> generalization_levels]

\* The statistics taken from the validation of the last round of the loop.
FinalStats_of_last_round(final_eq_classes) ==
    Stats(final_eq_classes,
          validate_k_anonymity(build_equivalence_classes(heap, current_anonymized,
                                                         quasi_identifiers), k),
          compute_information_loss(Deref(heap, data), Deref(heap, anonymized_data),
                                   quasi_identifiers))

FinalStats(final_eq_classes) ==
    Stats(final_eq_classes, validate_k_anonymity(final_eq_classes, k),
          compute_information_loss(Deref(heap, data), Deref(heap, anonymized_data),
                                   quasi_identifiers))

Finalize ==
    /\ pc = "final"
    /\ ret' = [returned |-> TRUE,
               records |-> anonymized_data,
               stats |-> FinalStats(build_equivalence_classes(heap, anonymized_data,
                                                              quasi_identifiers))]
    /\ pc' = "done"
    /\ UNCHANGED <<heap, data, caller_records, k, quasi_identifiers,
                   generalization_levels, max_iterations, iteration,
                   anonymized_data, current_anonymized, rounds>>
    /\ UNCHANGED <<genVars, lossVars, dpVars>>

AnonNext ==
    \/ AnonymizeEnter
    \/ ApplyRound
    \/ ValidateRound
    \/ HandleRound
    \/ LoopExit
    \/ Finalize

\* The calls explored: a list of up to MaxRecords records drawn from the
\* candidates of a scenario, each with its position as company_id, the
\* scenario's quasi-identifiers, k in 1..MaxK, max_iterations in
\* 0..MaxIterations and one of a few level mappings (none, all fields at
\* one level, the first field only).
Rec1(f, v) == [x \in {f, "company_id"} |-> IF x = f THEN v ELSE None]
Rec2(f1, v1, f2, v2) ==
    [x \in {f1, f2, "company_id"} |-> IF x = f1 THEN v1 ELSE IF x = f2 THEN v2 ELSE None]

Scenarios ==
    { [qis |-> <<"revenue_2023">>,
       candidates |-> {Rec1("revenue_2023", Num(3)), Rec1("revenue_2023", Num(7)),
                       Rec1("revenue_2023", Num(30))}],
      [qis |-> <<"headquarters", "chain_stage">>,
       candidates |->
         {Rec2("headquarters", Str(<<"u82cf", "u5dde">>),
               "chain_stage", Str(<<"u4e0a", "u6e38", "-", "u539f", "u6750", "u6599">>)),
          Rec2("headquarters", Str(<<"u5357", "u4eac">>),
               "chain_stage", Str(<<"u4e0a", "u6e38", "-", "u8bbe", "u5907">>)),
          Rec2("headquarters", Str(<<"u5317", "u4eac">>),
               "chain_stage", Str(<<"u4e2d", "u6e38", "-", "u5236", "u9020">>))}],
      [qis |-> <<"domestic_market_share">>,
       candidates |-> {Rec1("domestic_market_share", Num(3)),
                       Rec1("domestic_market_share", Num(7)),
                       Rec1("domestic_market_share", None)}],
      [qis |-> <<"company_name">>,
       candidates |-> {Rec1("company_name", Str(<<"a", "b", "c", "d">>)),
                       Rec1("company_name", Str(<<"a", "b", "x", "y">>)),
                       Rec1("company_name", Str(<<"a", "b", "c">>))}],
      [qis |-> <<"sensitivity_level">>,
       candidates |-> {Rec1("sensitivity_level", Str(<<"u9ad8">>)),
                       Rec1("sensitivity_level", Str(<<"u8f83", "u9ad8">>)),
                       Rec1("sensitivity_level", Str(<<"u4f4e">>))}],
      [qis |-> <<"headquarters">>,
       candidates |-> {Rec1("headquarters", Str(<<"u82cf", "u5dde">>)),
                       Rec1("headquarters", None),
                       [x \in {"company_id"} |-> None]}] }

Lists(S, n) == UNION {[1..m -> S] : m \in 0..n}

WithIds(records) ==
    [i \in 1..Len(records) |-> [records[i] EXCEPT !["company_id"] = Num(i)]]

InitialLevels(qis) ==
    {<<>>} \cup {[f \in Range(qis) |-> l] : l \in {2, MaxLevel}}
           \cup {[f \in {qis[1]} |-> 1]}

AnonInit ==
    /\ \E sc \in Scenarios :
        /\ quasi_identifiers = sc.qis
        /\ \E records \in Lists(sc.candidates, MaxRecords) :
              /\ heap = WithIds(records)
              /\ data = [i \in 1..Len(records) |-> i]
        /\ generalization_levels \in InitialLevels(sc.qis)
    /\ caller_records = heap
    /\ k \in 1..MaxK
    /\ max_iterations \in 0..MaxIterations
    /\ pc = "call"
    /\ iteration = 0
    /\ anonymized_data = <<>>
    /\ current_anonymized = <<>>
    /\ ret = NoReturn
    /\ rounds = 0
    /\ GenIdle
    /\ LossIdle
    /\ DpConstructed

SpecAnon == AnonInit /\ [][AnonNext]_vars

\* ------------------------------------------------------------------------
\* DifferentialPrivacyService as a state machine: one instance, its caller
\* making one call at a time on the list data and then dropping the result.

\* The arguments the calls are made with.
Mechanisms == {"laplace", "gaussian", "exponential"}
Filters == {<<>>, [sensitivity_level |-> Str(high_levels[1])]}
NumericFieldChoices ==
    {<<"revenue_2023">>, <<"patent_count">>, <<"revenue_2023", "r_and_d_ratio">>}
CustomBoundChoices ==
    {<<>>, [revenue_2023 |-> <<Fix(0), Fix(500)>>], [patent_count |-> <<Fix(0), Fix(10)>>],
     [revenue_2023 |-> <<Unit \div 3, Fix(200)>>]}
SumFields == {"revenue_2023", "patent_count"}
HistogramFields == {"sensitivity_level", "revenue_2023"}
BinChoices ==
    {[given |-> FALSE, list |-> <<>>],
     [given |-> TRUE, list |-> <<Str(high_levels[1]), Str(high_levels[2])>>]}
PercentileChoices == {<<25, 50, 75>>, <<50>>, <<100>>}
QueryNumbers == 0..MaxQueries

\* The caller may call the service when no anonymize call is running and the
\* last result has been dropped.
DpReady ==
    /\ pc \in {"idle", "done", "error", "raised"}
    /\ dp_ret.op = ""

DpResult(op, args, r) ==
    [op |-> op, args |-> args, raised |-> r.raised, value |-> r.value, info |-> r.info,
     base |-> Len(heap)]

DpQuery(op, args, r) ==
    /\ dp_ret' = DpResult(op, args, r)
    /\ UNCHANGED <<heap, data, caller_records, epsilon, delta, field_bounds, field_sensitivity,
                   threads>>
    /\ UNCHANGED <<genVars, anonVars, lossVars>>

Cells(h, ids, numeric_fields) ==
    UNION {{<<i, f>> : f \in noised_fields(h[ids[i]], numeric_fields)} : i \in 1..Len(ids)}

PrivatizeOutcome(self, args, r) ==
    /\ dp_ret' = DpResult("privatize", args, r)
    /\ heap' = r.heap
    /\ field_bounds' = self.field_bounds
    /\ field_sensitivity' = self.field_sensitivity
    /\ UNCHANGED <<data, caller_records, epsilon, delta, threads>>
    /\ UNCHANGED <<genVars, anonVars, lossVars>>

PrivatizeCall(self, numeric_fields, mechanism, custom_bounds, z) ==
    PrivatizeOutcome(self,
                     [numeric_fields |-> numeric_fields, mechanism |-> mechanism,
                      custom_bounds |-> custom_bounds],
                     privatize_enterprise_data(self, heap, data, numeric_fields, mechanism, z))

Privatize ==
    /\ DpReady
    /\ \E numeric_fields \in NumericFieldChoices, mechanism \in Mechanisms,
          custom_bounds \in CustomBoundChoices :
          \E z \in [Cells(heap, data, numeric_fields) -> NoiseSamples] :
             PrivatizeCall(IF data = <<>> THEN Self ELSE update_bounds(Self, custom_bounds),
                           numeric_fields, mechanism, custom_bounds, z)

QueryCount ==
    /\ DpReady
    /\ \E filter_condition \in Filters, mechanism \in Mechanisms, z \in NoiseSamples :
          DpQuery("count", [filter_condition |-> filter_condition, mechanism |-> mechanism],
                  query_count(heap, data, filter_condition, mechanism, z))

QuerySum ==
    /\ DpReady
    /\ \E field \in SumFields, filter_condition \in Filters, mechanism \in Mechanisms,
          z \in NoiseSamples :
          DpQuery("sum", [field |-> field, filter_condition |-> filter_condition,
                          mechanism |-> mechanism],
                  query_sum(heap, data, field, filter_condition, mechanism, z))

QueryAverage ==
    /\ DpReady
    /\ \E field \in SumFields, filter_condition \in Filters, mechanism \in Mechanisms,
          z \in NoiseSamples :
          DpQuery("average", [field |-> field, filter_condition |-> filter_condition,
                              mechanism |-> mechanism],
                  query_average(heap, data, field, filter_condition, mechanism, z))

QueryHistogram ==
    /\ DpReady
    /\ \E field \in HistogramFields, bins \in BinChoices, mechanism \in Mechanisms :
          \E z \in [histogram_keys(field_values(heap, data, field), bins) -> NoiseSamples] :
             DpQuery("histogram", [field |-> field, bins |-> bins, mechanism |-> mechanism],
                     query_histogram(heap, data, field, bins, mechanism, z))

QueryPercentile ==
    /\ DpReady
    /\ \E field \in SumFields, percentiles \in PercentileChoices, mechanism \in Mechanisms :
          \E z \in [Range(percentiles) -> NoiseSamples] :
             DpQuery("percentile", [field |-> field, percentiles |-> percentiles,
                                    mechanism |-> mechanism],
                     query_percentile(heap, data, field, percentiles, mechanism, z))

\* evaluate_privacy_budget(num_queries): a report, the instance left alone.
EvaluateBudget ==
    /\ DpReady
    /\ \E num_queries \in QueryNumbers :
          DpQuery("budget", [num_queries |-> num_queries],
                  Returned(evaluate_privacy_budget(Self, num_queries), <<>>))

\* The caller drops the result; the private records become garbage.
DpReturn ==
    /\ dp_ret.op # ""
    /\ dp_ret' = NoDpReturn
    /\ heap' = SubSeq(heap, 1, dp_ret.base)
    /\ UNCHANGED <<data, caller_records, epsilon, delta, field_bounds, field_sensitivity,
                   threads>>
    /\ UNCHANGED <<genVars, anonVars, lossVars>>

DpNext ==
    \/ Privatize
    \/ QueryCount
    \/ QuerySum
    \/ QueryAverage
    \/ QueryHistogram
    \/ QueryPercentile
    \/ EvaluateBudget
    \/ DpReturn

EpsilonChoices == {Unit \div 3, Fix(1)}

\* The records the service is called with.
DpCandidates ==
    { [revenue_2023 |-> Num(100), patent_count |-> Num(5),
       sensitivity_level |-> Str(high_levels[1])],
      [revenue_2023 |-> Num(900), patent_count |-> Num(20),
       sensitivity_level |-> Str(<<"u4f4e">>)],
      [revenue_2023 |-> None, sensitivity_level |-> Str(high_levels[1])],
      [revenue_2023 |-> Str(<<"a", "b", "c">>), patent_count |-> Num(5),
       sensitivity_level |-> Str(<<"u4f4e">>)] }

DpInit ==
    /\ \E records \in Lists(DpCandidates, MaxDpRecords) :
          /\ heap = records
          /\ data = [i \in 1..Len(records) |-> i]
    /\ caller_records = heap
    /\ AnonIdle
    /\ GenIdle
    /\ LossIdle
    /\ \E eps \in EpsilonChoices : Constructed(eps)

SpecDP == DpInit /\ [][DpNext]_vars

\* ------------------------------------------------------------------------
\* compute_information_loss as a pure function: one quasi-identifier, the
\* original and the anonymized lists drawn from bounded sets.

LossField == "f"

LossOriginals ==
    { <<>>, [f |-> None], [f |-> Num(25)], [f |-> Num(30)],
      [f |-> Str(<<"a", "b", "c", "d">>)] }

LossAnonymized ==
    { [f |-> Num(25)], [f |-> Str(UNKNOWN)],
      [f |-> Str(<<"N", "o", "n", "e">>)], [f |-> Str(MASK)],
      [f |-> Str(<<"2", "0", "-", "3", "0">>)], [f |-> Str(<<"2", "5", "-", "2", "7">>)],
      [f |-> Str(<<"a", "b", "*", "*">>)], [f |-> Str(<<"a", "b", "c", "d">>)] }

LossInit ==
    /\ \E n \in 1..MaxLossRecords :
          l_in \in [original_data : [1..n -> LossOriginals],
                    anonymized : [1..n -> LossAnonymized]]
    /\ l_out = NoLossOutput
    /\ GenIdle
    /\ NoRecords
    /\ AnonIdle
    /\ DpConstructed

LossOutcome(original_data, anonymized, qis, cells) ==
    l_out' = [done |-> TRUE,
              cells |-> cells,
              losses |-> cell_losses(original_data, anonymized, qis, cells,
                                     get_global_ranges(original_data, qis)),
              score |-> compute_information_loss(original_data, anonymized, qis)]

ComputeLoss ==
    /\ ~l_out.done
    /\ l_in # NoLossInput
    /\ LossOutcome(l_in.original_data, l_in.anonymized, <<LossField>>,
                   loss_cells(l_in.original_data, l_in.anonymized, <<LossField>>))
    /\ UNCHANGED <<l_in, genVars, heapVars, anonVars, dpVars>>

LossNext == ComputeLoss

SpecLoss == LossInit /\ [][LossNext]_vars

\* ------------------------------------------------------------------------
\* One caller using both services on the same list: anonymize first, then
\* calls of the differential-privacy service.

EngineQis == <<"revenue_2023", "sensitivity_level">>

Init ==
    /\ \E records \in Lists(DpCandidates, MaxDpRecords) :
          /\ heap = records
          /\ data = [i \in 1..Len(records) |-> i]
    /\ caller_records = heap
    /\ quasi_identifiers = EngineQis
    /\ generalization_levels \in {<<>>, [f \in Range(EngineQis) |-> 2]}
    /\ k = 2
    /\ max_iterations = MaxIterations
    /\ pc = "call"
    /\ iteration = 0
    /\ anonymized_data = <<>>
    /\ current_anonymized = <<>>
    /\ ret = NoReturn
    /\ rounds = 0
    /\ GenIdle
    /\ LossIdle
    /\ DpConstructed

Next == AnonNext \/ DpNext

Spec == Init /\ [][Next]_vars


\* ------------------------------------------------------------------------
\* Two privatize_enterprise_data calls running at the same time on one
\* instance, each with custom bounds for the same field.  Nothing in the
\* class takes a lock, so the steps of the two calls interleave; a step is
\* one access to the tables of the instance.  threads[t]: pc, the call's
\* arguments, i the record at hand, sensitivity and bounds what
\* add_noise_to_field last read, noisy_value its local, privatized_data the
\* values of the field in the records built so far, stats_sensitivity the
\* sensitivity _compute_statistics read.
ThreadIds == 1..2
ConcField == "revenue_2023"

Thread(custom_bounds, mechanism) ==
    [pc |-> "call", custom_bounds |-> custom_bounds, mechanism |-> mechanism, i |-> 1,
     sensitivity |-> 0, noisy_value |-> 0, bounds |-> <<>>, privatized_data |-> <<>>,
     stats_sensitivity |-> 0]

ThreadStep(t, next) ==
    /\ threads' = [threads EXCEPT ![t] = next]
    /\ UNCHANGED <<heap, data, caller_records, epsilon, delta, dp_ret>>
    /\ UNCHANGED <<genVars, anonVars, lossVars>>

\* Line 165: self.field_bounds.update(custom_bounds)
ThreadUpdateBounds(t) ==
    /\ threads[t].pc = "call"
    /\ field_bounds' =
          [f \in DOMAIN field_bounds \cup DOMAIN threads[t].custom_bounds |->
              IF f \in DOMAIN threads[t].custom_bounds
              THEN threads[t].custom_bounds[f] ELSE field_bounds[f]]
    /\ UNCHANGED field_sensitivity
    /\ ThreadStep(t, [threads[t] EXCEPT !.pc = "bounds_updated"])

\* Lines 167-168: self.field_sensitivity[field] = max_val - min_val
ThreadUpdateSensitivity(t) ==
    /\ threads[t].pc = "bounds_updated"
    /\ field_sensitivity' =
          [f \in DOMAIN field_sensitivity \cup DOMAIN threads[t].custom_bounds |->
              IF f \in DOMAIN threads[t].custom_bounds
              THEN threads[t].custom_bounds[f][2] - threads[t].custom_bounds[f][1]
              ELSE field_sensitivity[f]]
    /\ UNCHANGED field_bounds
    /\ ThreadStep(t, [threads[t] EXCEPT !.pc = "record"])

\* Lines 173-183 and 123: the next record, and add_noise_to_field reading the
\* sensitivity of the field.
ThreadReadSensitivity(t) ==
    /\ threads[t].pc = "record"
    /\ threads[t].i <= Len(data)
    /\ UNCHANGED <<field_bounds, field_sensitivity>>
    /\ ThreadStep(t, [threads[t] EXCEPT
                         !.pc = "noise",
                         !.sensitivity = Get(field_sensitivity, ConcField, Fix(1))])

\* Lines 126-131: the mechanism applied to the value of the record.
ThreadNoiseOutcome(t, r) ==
    ThreadStep(t, [threads[t] EXCEPT
                      !.pc = IF r.raised THEN "raised" ELSE "clip",
                      !.noisy_value = r.value])

ThreadNoise(t) ==
    /\ threads[t].pc = "noise"
    /\ UNCHANGED <<field_bounds, field_sensitivity>>
    /\ \E z \in NoiseSamples :
          ThreadNoiseOutcome(t, query_noise(threads[t].mechanism,
                                            float_real(heap[data[threads[t].i]][ConcField]).n,
                                            threads[t].sensitivity, z))

\* Lines 134-139 and 185-195: the bounds of the field read, the noisy value
\* clipped to them and stored in the private record.
ThreadClip(t) ==
    /\ threads[t].pc = "clip"
    /\ UNCHANGED <<field_bounds, field_sensitivity>>
    /\ ThreadStep(t, [threads[t] EXCEPT
                         !.pc = "record",
                         !.i = @ + 1,
                         !.bounds = Get(field_bounds, ConcField, <<>>),
                         !.privatized_data =
                             Append(@, clip(threads[t].noisy_value,
                                            Get(field_bounds, ConcField, <<>>)))])

\* Lines 198-203 and 245: the statistics, with the sensitivity of the field
\* as the table has it now, and the return.
ThreadReturn(t) ==
    /\ threads[t].pc = "record"
    /\ threads[t].i > Len(data)
    /\ UNCHANGED <<field_bounds, field_sensitivity>>
    /\ ThreadStep(t, [threads[t] EXCEPT
                         !.pc = "returned",
                         !.stats_sensitivity = Get(field_sensitivity, ConcField, Fix(1))])

ConcNext ==
    \/ \E t \in ThreadIds : ThreadUpdateBounds(t)
    \/ \E t \in ThreadIds : ThreadUpdateSensitivity(t)
    \/ \E t \in ThreadIds : ThreadReadSensitivity(t)
    \/ \E t \in ThreadIds : ThreadNoise(t)
    \/ \E t \in ThreadIds : ThreadClip(t)
    \/ \E t \in ThreadIds : ThreadReturn(t)

\* The bounds a call may bring for the field.
ConcBoundChoices == {c \in CustomBoundChoices : ConcField \in DOMAIN c}

\* The records: those whose value of the field is a number.
ConcCandidates ==
    {r \in DpCandidates : ConcField \in DOMAIN r /\ r[ConcField].t = "num"}

\* One instance just constructed, a non-empty list of records, and two calls
\* about to start, with different bounds for the field.
ConcInit ==
    /\ \E records \in Lists(ConcCandidates, MaxDpRecords) :
          /\ records # <<>>
          /\ heap = records
          /\ data = [i \in 1..Len(records) |-> i]
    /\ caller_records = heap
    /\ AnonIdle
    /\ GenIdle
    /\ LossIdle
    /\ epsilon = Fix(1)
    /\ delta = Rat(1, 100000)
    /\ field_bounds = default_bounds
    /\ field_sensitivity = default_sensitivity
    /\ dp_ret = NoDpReturn
    /\ \E b1, b2 \in ConcBoundChoices :
          /\ b1 # b2
          /\ \E m1, m2 \in {"laplace", "gaussian"} :
                threads = <<Thread(b1, m1), Thread(b2, m2)>>

SpecConc == ConcInit /\ [][ConcNext]_vars
\* ------------------------------------------------------------------------
\* Properties of the generalization taxonomy (SpecGen).

\* C3: generalization is monotonic.  For every field type and each level L in
\* {1, 2}, two values that generalize to the same value at level L generalize
\* to the same value at level L + 1.  Stated here for two numbers.
C3_Monotonic ==
    (/\ g_out.done
     /\ g_in.level \in {1, 2}
     /\ g_in.v1.t = "num"
     /\ g_in.v2.t = "num"
     /\ RAISE \notin {g_out.a1, g_out.a2, g_out.b1, g_out.b2}
     /\ g_out.a1 = g_out.a2)
    => g_out.b1 = g_out.b2

\* C7: the numeric field types (revenue, market share, R&D ratio) at every
\* level return the label "unknown" for a null value and for a value that is
\* no number or cannot be parsed as one, and never raise.
C7_NumericUnknown ==
    (/\ g_out.done
     /\ g_in.field \in {"revenue_2023", "domestic_market_share", "r_and_d_ratio"})
    => /\ g_out.a1 # RAISE
       /\ (g_in.v1 = None \/ ~float(g_in.v1).ok) => g_out.a1 = Str(UNKNOWN)

\* C8 as stated: for a quasi-identifier of no known type and any string, of
\* any length: level 1 returns it verbatim, level 2 keeps its first
\* floor(len / 2) characters and replaces each of the others by '*', level 3
\* or higher returns '*'.
C8_AnyLength ==
    (/\ g_out.done
     /\ g_in.field = "company_name"
     /\ g_in.v1.t = "str")
    => g_out.a1 =
          IF g_in.level = 1 THEN g_in.v1
          ELSE IF g_in.level = 2
          THEN Str([i \in 1..Len(g_in.v1.s) |->
                       IF i <= Len(g_in.v1.s) \div 2 THEN g_in.v1.s[i] ELSE "*"])
          ELSE Str(<<"*">>)

\* C8, amended: the same for a string of more than three characters; a
\* string of at most three characters is returned unchanged at every level.
C8_LongStrings ==
    (/\ g_out.done
     /\ g_in.field = "company_name"
     /\ g_in.v1.t = "str")
    => g_out.a1 =
          IF Len(g_in.v1.s) <= 3 \/ g_in.level = 1 THEN g_in.v1
          ELSE IF g_in.level = 2
          THEN Str([i \in 1..Len(g_in.v1.s) |->
                       IF i <= Len(g_in.v1.s) \div 2 THEN g_in.v1.s[i] ELSE "*"])
          ELSE Str(<<"*">>)

\* A string of five characters half masked at level 2.
C8_Witness ==
    /\ g_out.done
    /\ g_in.field = "company_name"
    /\ g_in.level = 2
    /\ g_in.v1 = Str(<<"a", "b", "c", "d", "e">>)
    /\ g_out.a1 = Str(<<"a", "b", "*", "*", "*">>)

\* ------------------------------------------------------------------------
\* Properties of KAnonymityService.anonymize (SpecAnon, SpecAnonLive).

\* C1: when anonymize returns statistics with is_k_anonymous = true, every
\* equivalence class of the returned records (the records with the same
\* quasi-identifier values) has at least k members.
C1_KAnonymous ==
    (pc = "done" /\ ret.stats.is_k_anonymous)
    => LET rec(i) == heap[ret.records[i]]
           Same(i, j) ==
               \A q \in Range(quasi_identifiers) :
                   /\ q \in DOMAIN rec(i) <=> q \in DOMAIN rec(j)
                   /\ q \in DOMAIN rec(i) => rec(i)[q] = rec(j)[q]
       IN  \A i \in 1..Len(ret.records) :
              Cardinality({j \in 1..Len(ret.records) : Same(i, j)}) >= k

\* k-anonymity with k >= 2 reached in the second round, by escalation.
C1_Witness ==
    /\ pc = "done"
    /\ ret.stats.is_k_anonymous
    /\ k >= 2
    /\ rounds = 2
    /\ Len(ret.records) >= k

\* C2: if some equivalence class of the returned records has fewer than k
\* members when anonymize ends, the statistics have is_k_anonymous = false
\* and violated_classes is the number of classes below k; the best-effort
\* records are still returned.
C2_Violations ==
    LET rec(i) == heap[ret.records[i]]
        Same(i, j) ==
            \A q \in Range(quasi_identifiers) :
                /\ q \in DOMAIN rec(i) <=> q \in DOMAIN rec(j)
                /\ q \in DOMAIN rec(i) => rec(i)[q] = rec(j)[q]
        Class(i) == {j \in 1..Len(ret.records) : Same(i, j)}
        Below == {c \in {Class(i) : i \in 1..Len(ret.records)} : Cardinality(c) < k}
    IN  (pc = "done" /\ Below # {})
        => /\ ret.stats.is_k_anonymous = FALSE
           /\ ret.stats.violated_classes = Cardinality(Below)
           /\ ret.returned
           /\ Len(ret.records) = Len(data)

\* The budget used up with two classes still below k.
C2_Witness ==
    /\ pc = "done"
    /\ rounds = max_iterations
    /\ rounds >= 1
    /\ ~ret.stats.is_k_anonymous
    /\ ret.stats.violated_classes = 2

\* C4: anonymize always terminates and performs at most max_iterations
\* generalize-group-validate rounds; it stops at the first round in which
\* every equivalence class has size >= k.  Termination: every step of a call
\* lowers a natural number, four times the rounds left plus the steps left
\* in the round, so that a call takes finitely many steps.  First round: a
\* round whose classes all have k members ends the loop, any other round is
\* followed by the handling of the small classes, and no round begins once
\* the loop has ended.
C4_Terminates ==
    /\ rounds <= max_iterations
    /\ [][rounds' <= max_iterations' /\ iteration' <= max_iterations']_vars
    /\ [][LET left(p) == CASE p = "call" -> 6 [] p = "loop" -> 5 [] p = "validate" -> 4
                            [] p = "handle" -> 3 [] p = "final" -> 1 [] OTHER -> 0
          IN  4 * (max_iterations' - iteration') + left(pc')
                 < 4 * (max_iterations - iteration) + left(pc)]_vars
    /\ [][LET rec(i) == heap[current_anonymized[i]]
              Same(i, j) ==
                  \A q \in Range(quasi_identifiers) :
                      /\ q \in DOMAIN rec(i) <=> q \in DOMAIN rec(j)
                      /\ q \in DOMAIN rec(i) => rec(i)[q] = rec(j)[q]
              AllClassesHaveK ==
                  \A i \in 1..Len(current_anonymized) :
                      Cardinality({j \in 1..Len(current_anonymized) : Same(i, j)}) >= k
          IN  pc = "validate" => (pc' = IF AllClassesHaveK THEN "final" ELSE "handle")]_vars
    /\ [][(pc \in {"final", "done", "error", "raised"}) => (rounds' = rounds)]_vars

\* A call that stopped at its second round with rounds to spare.
C4_Witness ==
    /\ pc = "done"
    /\ rounds = 2
    /\ rounds < max_iterations
    /\ ret.stats.is_k_anonymous
    /\ k >= 2

\* C5: for an empty dataset, or when a declared quasi-identifier is no field
\* of the first record, anonymize returns an empty record list and
\* statistics that hold only an error indicator, before any processing: no
\* round is begun and no record is copied.
C5_InvalidInput ==
    (/\ pc # "call"
     /\ \/ caller_records = <<>>
        \/ \E i \in 1..Len(quasi_identifiers) :
               quasi_identifiers[i] \notin DOMAIN caller_records[1])
    => /\ pc = "error"
       /\ ret.returned
       /\ ret.records = <<>>
       /\ DOMAIN ret.stats = {"error"}
       /\ rounds = 0
       /\ heap = caller_records

\* The error returned for a list whose first record lacks the
\* quasi-identifier that a later record has.
C5_Witness ==
    /\ pc = "error"
    /\ Len(data) >= 2
    /\ quasi_identifiers[1] \notin DOMAIN heap[data[1]]
    /\ quasi_identifiers[1] \in DOMAIN heap[data[2]]
    /\ DOMAIN ret.stats = {"error"}

\* ------------------------------------------------------------------------
\* Properties of the two services used together (Spec).

\* C6: no engine operation (anonymize with apply_generalization and
\* handle_small_classes, privatize_enterprise_data, the query_* operations)
\* changes a record or the record list passed in by the caller: at every
\* point the caller's list holds the same record objects in the same order
\* and each of them has exactly the field values it had before the call, so
\* that generalized, suppressed and noised values are in copies only.
C6_InputsUnchanged ==
    /\ Len(data) = Len(caller_records)
    /\ \A i \in 1..Len(data) : data[i] = i /\ heap[i] = caller_records[i]

\* anonymize has returned generalized records and privatize_enterprise_data
\* noised ones, each differing from the record it was made from.
C6_Witness ==
    /\ pc = "done"
    /\ \E i \in 1..Len(ret.records) : heap[ret.records[i]] \notin Range(caller_records)
    /\ dp_ret.op = "privatize"
    /\ ~dp_ret.raised
    /\ \E i \in 1..Len(dp_ret.value) : heap[dp_ret.value[i]] # caller_records[i]

\* ------------------------------------------------------------------------
\* Properties of compute_information_loss (SpecLoss).

\* C9 as stated: the loss of every (record, quasi-identifier) cell lies in
\* [0, 1] and is 0 exactly when the anonymized value equals the original
\* value; the overall score total loss / total cells lies in [0, 1].
C9_EqualValues ==
    l_out.done
    => /\ \A c \in l_out.cells :
             /\ RatLeq(RatZero, l_out.losses[c[1]])
             /\ RatLeq(l_out.losses[c[1]], RatOne)
             /\ l_out.losses[c[1]] = RatZero
                   <=> l_in.anonymized[c[1]][LossField] = l_in.original_data[c[1]][LossField]
       /\ RatLeq(RatZero, l_out.score)
       /\ RatLeq(l_out.score, RatOne)

\* C9, amended: the loss of every cell lies in [0, 1] and is 0 exactly when
\* str() of the anonymized value equals str() of the original value, so also
\* for the original None and the anonymized 'None'; the overall score lies
\* in [0, 1].
C9_EqualStrings ==
    l_out.done
    => /\ \A c \in l_out.cells :
             /\ RatLeq(RatZero, l_out.losses[c[1]])
             /\ RatLeq(l_out.losses[c[1]], RatOne)
             /\ l_out.losses[c[1]] = RatZero
                   <=> PyStr(l_in.anonymized[c[1]][LossField])
                          = PyStr(l_in.original_data[c[1]][LossField])
       /\ RatLeq(RatZero, l_out.score)
       /\ RatLeq(l_out.score, RatOne)

\* Two cells, one unchanged with loss 0, one generalized to an interval that
\* is narrower than the range of the column, its loss strictly between 0 and 1.
C9_Witness ==
    /\ l_out.done
    /\ l_out.cells = {<<1, 1>>, <<2, 1>>}
    /\ l_out.losses[1] = RatZero
    /\ l_out.losses[2] # RatZero
    /\ l_out.losses[2] # RatOne
    /\ l_out.score # RatZero

\* ------------------------------------------------------------------------
\* Properties of DifferentialPrivacyService (SpecDP).

\* C10: query_count never returns a negative result: for every dataset,
\* every filter, either mechanism (and any other mechanism name) and every
\* noise draw it returns, without raising, an integer >= 0.
C10_CountNonNegative ==
    dp_ret.op = "count" => ~dp_ret.raised /\ dp_ret.value \in Nat

\* Noise far below zero on a positive true count, the count returned is 0.
C10_Witness ==
    /\ dp_ret.op = "count"
    /\ dp_ret.info.true_count > 0
    /\ dp_ret.info.noise < 0
    /\ dp_ret.value = 0


\* C11: for a field that has bounds (min, max) in the instance's table, every
\* noised number returned for it lies in [min, max]: the noised fields of the
\* private records of privatize_enterprise_data, the noisy average of
\* query_average and every noisy percentile of query_percentile, whatever the
\* noise drawn.  (Percentiles are in ten-thousandths, the rest in 1/Unit.)
C11_WithinBounds ==
    /\ (dp_ret.op = "privatize" /\ ~dp_ret.raised) =>
          \A i \in 1..Len(dp_ret.value) :
             \A f \in noised_fields(heap[data[i]], dp_ret.args.numeric_fields)
                      \cap DOMAIN field_bounds :
                /\ field_bounds[f][1] <= heap[dp_ret.value[i]][f].n
                /\ heap[dp_ret.value[i]][f].n <= field_bounds[f][2]
    /\ (/\ dp_ret.op = "average"
        /\ ~dp_ret.raised
        /\ "error" \notin DOMAIN dp_ret.info
        /\ dp_ret.args.field \in DOMAIN field_bounds) =>
          /\ field_bounds[dp_ret.args.field][1] <= dp_ret.value
          /\ dp_ret.value <= field_bounds[dp_ret.args.field][2]
    /\ (/\ dp_ret.op = "percentile"
        /\ ~dp_ret.raised
        /\ "error" \notin DOMAIN dp_ret.info
        /\ dp_ret.args.field \in DOMAIN field_bounds) =>
          \A p \in DOMAIN dp_ret.value :
             /\ field_bounds[dp_ret.args.field][1] * 10000 <= dp_ret.value[p] * Unit
             /\ dp_ret.value[p] * Unit <= field_bounds[dp_ret.args.field][2] * 10000

\* C12: query_histogram returns a histogram: without explicit bins its keys
\* are exactly the distinct non-null values of the field, with explicit bins
\* exactly the bins given, and then only the values that are bins are counted;
\* every noisy count is an integer >= 0 whatever the noise drawn.
C12_Histogram ==
    dp_ret.op = "histogram" =>
       /\ ~dp_ret.raised
       /\ DOMAIN dp_ret.value =
             IF dp_ret.args.bins.given THEN Range(dp_ret.args.bins.list)
             ELSE {heap[data[i]][dp_ret.args.field] :
                      i \in {j \in 1..Len(data) :
                                /\ dp_ret.args.field \in DOMAIN heap[data[j]]
                                /\ heap[data[j]][dp_ret.args.field] # None}}
       /\ \A b \in DOMAIN dp_ret.value : dp_ret.value[b] \in Nat
       /\ dp_ret.args.bins.given =>
             /\ "total_count" \in DOMAIN dp_ret.info
             /\ dp_ret.info.total_count =
                   Cardinality({j \in 1..Len(data) :
                                   /\ dp_ret.args.field \in DOMAIN heap[data[j]]
                                   /\ heap[data[j]][dp_ret.args.field]
                                         \in Range(dp_ret.args.bins.list)})

\* C13: the custom bounds of a privatize_enterprise_data call are in the
\* instance's tables when it returns, with sensitivity max - min; an entry of
\* the tables changes only in a privatize call that supplies bounds for that
\* field (so it is kept by every other call, and no default is restored); and
\* the later calls work with the tables: the sensitivity reported by
\* query_sum, query_average and the statistics of privatize is the table's,
\* and the noisy average lies within the table's bounds.
C13_CustomBoundsPersist ==
    /\ [][(dp_ret.op = "" /\ dp_ret'.op = "privatize") =>
             \A f \in DOMAIN dp_ret'.args.custom_bounds :
                /\ f \in DOMAIN field_bounds' \cap DOMAIN field_sensitivity'
                /\ field_bounds'[f] = dp_ret'.args.custom_bounds[f]
                /\ field_sensitivity'[f] =
                      dp_ret'.args.custom_bounds[f][2] - dp_ret'.args.custom_bounds[f][1]]_vars
    /\ [][\A f \in DOMAIN field_bounds :
             /\ f \in DOMAIN field_bounds' \cap DOMAIN field_sensitivity'
             /\ (\/ field_bounds'[f] # field_bounds[f]
                 \/ field_sensitivity'[f] # field_sensitivity[f]) =>
                   (dp_ret'.op = "privatize" /\ f \in DOMAIN dp_ret'.args.custom_bounds)]_vars
    /\ [][(dp_ret'.op \in {"sum", "average"} /\ ~dp_ret'.raised
              /\ "error" \notin DOMAIN dp_ret'.info
              /\ dp_ret'.args.field \in DOMAIN field_sensitivity') =>
             /\ dp_ret'.op = "sum" =>
                   dp_ret'.info.sensitivity = field_sensitivity'[dp_ret'.args.field]
             /\ dp_ret'.op = "average" =>
                   /\ dp_ret'.info.sensitivity =
                         field_sensitivity'[dp_ret'.args.field] \div dp_ret'.info.count
                   /\ field_bounds'[dp_ret'.args.field][1] <= dp_ret'.value
                   /\ dp_ret'.value <= field_bounds'[dp_ret'.args.field][2]]_vars
    /\ [][(dp_ret'.op = "privatize" /\ ~dp_ret'.raised
              /\ "field_metrics" \in DOMAIN dp_ret'.info) =>
             \A f \in DOMAIN dp_ret'.info.field_metrics :
                dp_ret'.info.field_metrics[f].sensitivity = Get(field_sensitivity', f, Fix(1))]_vars

\* C13 as the code has it: the same, for the custom bounds of a call made
\* with a non-empty data list; a call with an empty list returns its error
\* before the tables are touched.
C13_PersistAfterNonEmptyCall ==
    /\ [][(dp_ret.op = "" /\ dp_ret'.op = "privatize") =>
             IF data = <<>>
             THEN field_bounds' = field_bounds /\ field_sensitivity' = field_sensitivity
             ELSE \A f \in DOMAIN dp_ret'.args.custom_bounds :
                     /\ f \in DOMAIN field_bounds' \cap DOMAIN field_sensitivity'
                     /\ field_bounds'[f] = dp_ret'.args.custom_bounds[f]
                     /\ field_sensitivity'[f] =
                           dp_ret'.args.custom_bounds[f][2]
                              - dp_ret'.args.custom_bounds[f][1]]_vars
    /\ [][\A f \in DOMAIN field_bounds :
             /\ f \in DOMAIN field_bounds' \cap DOMAIN field_sensitivity'
             /\ (\/ field_bounds'[f] # field_bounds[f]
                 \/ field_sensitivity'[f] # field_sensitivity[f]) =>
                   (dp_ret'.op = "privatize" /\ f \in DOMAIN dp_ret'.args.custom_bounds)]_vars
    /\ [][(dp_ret'.op \in {"sum", "average"} /\ ~dp_ret'.raised
              /\ "error" \notin DOMAIN dp_ret'.info
              /\ dp_ret'.args.field \in DOMAIN field_sensitivity') =>
             /\ dp_ret'.op = "sum" =>
                   dp_ret'.info.sensitivity = field_sensitivity'[dp_ret'.args.field]
             /\ dp_ret'.op = "average" =>
                   /\ dp_ret'.info.sensitivity =
                         field_sensitivity'[dp_ret'.args.field] \div dp_ret'.info.count
                   /\ field_bounds'[dp_ret'.args.field][1] <= dp_ret'.value
                   /\ dp_ret'.value <= field_bounds'[dp_ret'.args.field][2]]_vars
    /\ [][(dp_ret'.op = "privatize" /\ ~dp_ret'.raised
              /\ "field_metrics" \in DOMAIN dp_ret'.info) =>
             \A f \in DOMAIN dp_ret'.info.field_metrics :
                dp_ret'.info.field_metrics[f].sensitivity = Get(field_sensitivity', f, Fix(1))]_vars

\* A later query_sum that supplies no bounds works with the custom range of
\* an earlier call, not the default 1000.
C13_Witness ==
    /\ dp_ret.op = "sum"
    /\ ~dp_ret.raised
    /\ dp_ret.args.field = "revenue_2023"
    /\ "sensitivity" \in DOMAIN dp_ret.info
    /\ field_bounds["revenue_2023"] = <<Fix(0), Fix(500)>>
    /\ dp_ret.info.sensitivity = Fix(500)

\* C14: a call made with a mechanism name other than 'laplace' and 'gaussian'
\* is answered with an error by every operation: it raises, and the
\* instance's tables are left as they were.
C14_UnknownMechanism ==
    [][(dp_ret.op = "" /\ dp_ret'.op # "" /\ "mechanism" \in DOMAIN dp_ret'.args
           /\ dp_ret'.args.mechanism \notin {"laplace", "gaussian"}) =>
          /\ dp_ret'.raised
          /\ field_bounds' = field_bounds
          /\ field_sensitivity' = field_sensitivity]_vars

\* C15: when no record considered (passing the filter, for query_sum and
\* query_average) holds a value of the field that is a number or parses as
\* one, query_sum, query_average and query_percentile return the
\* "No valid data" indicator: they do not raise and return no noised number.
C15_NoValidData ==
    (/\ dp_ret.op \in {"sum", "average", "percentile"}
     /\ \A i \in 1..Len(data) :
           \/ /\ "filter_condition" \in DOMAIN dp_ret.args
              /\ \E f \in DOMAIN dp_ret.args.filter_condition :
                    \/ f \notin DOMAIN heap[data[i]]
                    \/ heap[data[i]][f] # dp_ret.args.filter_condition[f]
           \/ dp_ret.args.field \notin DOMAIN heap[data[i]]
           \/ heap[data[i]][dp_ret.args.field] = None
           \/ ~float_real(heap[data[i]][dp_ret.args.field]).ok) =>
       /\ ~dp_ret.raised
       /\ dp_ret.info = [error |-> "No valid data"]

\* C16: evaluate_privacy_budget(n) reports the cumulative epsilon
\* epsilon * n exactly, the level strong below 1.0, moderate from 1.0 to
\* below 5.0 and weak from there, and the remaining budget
\* max(0, 10.0 - epsilon * n) exactly, which is never negative and no larger
\* than for n - 1; the evaluation changes nothing of the instance and the
\* queries stay available and answered afterwards.
C16_BudgetReport ==
    /\ [][dp_ret'.op = "budget" =>
             /\ dp_ret'.value.total_epsilon_consumed * Unit
                   = epsilon * dp_ret'.args.num_queries * 10000
             /\ dp_ret'.value.privacy_level =
                   IF epsilon * dp_ret'.args.num_queries < Fix(1) THEN STRONG_PRIVACY
                   ELSE IF epsilon * dp_ret'.args.num_queries < Fix(5) THEN MODERATE_PRIVACY
                   ELSE WEAK_PRIVACY
             /\ dp_ret'.value.remaining_budget * Unit
                   = Max2(0, Fix(10) - epsilon * dp_ret'.args.num_queries) * 10000
             /\ dp_ret'.value.remaining_budget >= 0
             /\ dp_ret'.args.num_queries > 0 =>
                   dp_ret'.value.remaining_budget
                      <= evaluate_privacy_budget(Self, dp_ret'.args.num_queries - 1)
                            .remaining_budget
             /\ UNCHANGED <<epsilon, field_bounds, field_sensitivity, heap, data>>]_vars
    /\ [][dp_ret.op = "budget" => (DpReady /\ ENABLED QueryCount)']_vars
    /\ [][dp_ret'.op = "count" => ~dp_ret'.raised]_vars

\* C16 as the code has it: the cumulative epsilon and the remaining budget are
\* reported rounded to 4 decimal places (within 0.00005 of epsilon * n and of
\* 10.0 - epsilon * n), the level is that of the unrounded epsilon * n; the
\* rest as in C16.
C16_RoundedBudgetReport ==
    /\ [][dp_ret'.op = "budget" =>
             /\ 2 * Abs(dp_ret'.value.total_epsilon_consumed * Unit
                           - epsilon * dp_ret'.args.num_queries * 10000) <= Unit
             /\ dp_ret'.value.privacy_level =
                   IF epsilon * dp_ret'.args.num_queries < Fix(1) THEN STRONG_PRIVACY
                   ELSE IF epsilon * dp_ret'.args.num_queries < Fix(5) THEN MODERATE_PRIVACY
                   ELSE WEAK_PRIVACY
             /\ IF epsilon * dp_ret'.args.num_queries >= Fix(10)
                THEN dp_ret'.value.remaining_budget = 0
                ELSE 2 * Abs(dp_ret'.value.remaining_budget * Unit
                                - (Fix(10) - epsilon * dp_ret'.args.num_queries) * 10000)
                        <= Unit
             /\ dp_ret'.value.remaining_budget >= 0
             /\ dp_ret'.args.num_queries > 0 =>
                   dp_ret'.value.remaining_budget
                      <= evaluate_privacy_budget(Self, dp_ret'.args.num_queries - 1)
                            .remaining_budget
             /\ UNCHANGED <<epsilon, field_bounds, field_sensitivity, heap, data>>]_vars
    /\ [][dp_ret.op = "budget" => (DpReady /\ ENABLED QueryCount)']_vars
    /\ [][dp_ret'.op = "count" => ~dp_ret'.raised]_vars

\* A report past the ceiling of 10.0, with a cumulative epsilon that has more
\* than 4 decimal places: weak, nothing remaining.
C16_Witness ==
    /\ dp_ret.op = "budget"
    /\ epsilon * dp_ret.args.num_queries > Fix(10)
    /\ dp_ret.value.total_epsilon_consumed * Unit # epsilon * dp_ret.args.num_queries * 10000
    /\ dp_ret.value.privacy_level = WEAK_PRIVACY
    /\ dp_ret.value.remaining_budget = 0
    /\ dp_ret.value.remaining_queries = 0

\* C17: an anonymize call that has passed the validation of its input (the
\* dataset is not empty and the first record has every declared
\* quasi-identifier) never raises.
C17_NeverRaises == pc # "raised"

\* C18: in a round in which the records of the classes smaller than k number
\* at least k, the level of every declared quasi-identifier (1 for one the
\* levels mapping has no entry for) goes up by one, capped at 3; no level
\* ever goes down, and after a round no level is above 3.
C18_Escalation ==
    /\ [][LET size(i) ==
                  Cardinality({j \in 1..Len(current_anonymized) :
                                  class_key(heap[current_anonymized[j]], quasi_identifiers)
                                     = class_key(heap[current_anonymized[i]],
                                                 quasi_identifiers)})
              pool == {i \in 1..Len(current_anonymized) : size(i) < k}
          IN  (pc = "handle" /\ pc' = "loop" /\ Cardinality(pool) >= k) =>
                 \A q \in Range(quasi_identifiers) :
                    Get(generalization_levels', q, 1)
                       = Min2(Get(generalization_levels, q, 1) + 1, 3)]_vars
    /\ [][\A q \in Range(quasi_identifiers) :
             Get(generalization_levels', q, 1) >= Get(generalization_levels, q, 1)]_vars
    /\ [][(pc = "handle" /\ pc' = "loop") =>
             \A q \in Range(quasi_identifiers) : Get(generalization_levels', q, 1) <= 3]_vars

\* C19: a record that the grouping of a round put in a class of at least k
\* members comes out of the next round's generalization with the
\* quasi-identifier values it had.
C19_ConformingUntouched ==
    [][LET size(id) ==
               Cardinality({j \in 1..Len(current_anonymized) :
                               class_key(heap[current_anonymized[j]], quasi_identifiers)
                                  = class_key(heap[id], quasi_identifiers)})
       IN  (pc = "loop" /\ pc' = "validate" /\ iteration > 0) =>
              \A i \in 1..Len(anonymized_data) :
                 (anonymized_data[i] \in Range(current_anonymized)
                     /\ size(anonymized_data[i]) >= k) =>
                    \A q \in Range(quasi_identifiers) \cap DOMAIN heap[anonymized_data[i]] :
                       heap'[current_anonymized'[i]][q] = heap[anonymized_data[i]][q]]_vars

\* C20: in a round in which the records of the classes smaller than k number
\* fewer than k, every quasi-identifier value of those records becomes '*',
\* and the next round's generalization leaves them '*'.
C20_SuppressionTerminal ==
    /\ [][LET size(i) ==
                  Cardinality({j \in 1..Len(current_anonymized) :
                                  class_key(heap[current_anonymized[j]], quasi_identifiers)
                                     = class_key(heap[current_anonymized[i]],
                                                 quasi_identifiers)})
              pool == {i \in 1..Len(current_anonymized) : size(i) < k}
          IN  (pc = "handle" /\ pc' = "loop" /\ pool # {} /\ Cardinality(pool) < k) =>
                 \A i \in 1..Len(anonymized_data') :
                    anonymized_data'[i] \notin Range(current_anonymized) =>
                       \A q \in Range(quasi_identifiers)
                                \cap DOMAIN heap'[anonymized_data'[i]] :
                          heap'[anonymized_data'[i]][q] = Str(MASK)]_vars
    /\ [][LET size(i) ==
                  Cardinality({j \in 1..Len(current_anonymized) :
                                  class_key(heap[current_anonymized[j]], quasi_identifiers)
                                     = class_key(heap[current_anonymized[i]],
                                                 quasi_identifiers)})
              pool == {i \in 1..Len(current_anonymized) : size(i) < k}
          IN  (pc = "loop" /\ pc' = "validate" /\ iteration > 0
                  /\ pool # {} /\ Cardinality(pool) < k) =>
                 \A i \in 1..Len(anonymized_data) :
                    anonymized_data[i] \notin Range(current_anonymized) =>
                       \A q \in Range(quasi_identifiers)
                                \cap DOMAIN heap[anonymized_data[i]] :
                          heap'[current_anonymized'[i]][q] = Str(MASK)]_vars

\* C21: build_equivalence_classes partitions the records it is given: every
\* record is a member of exactly one class, the key of a class is the tuple
\* of str() of its members' quasi-identifier values in declared order (''
\* for a field a record lacks), members are in input order and the sizes sum
\* to the number of records; validate_k_anonymity reports is_k_anonymous
\* exactly when there is a class and every class has at least k members, the
\* smallest class size, and the number of classes smaller than k.
C21_Partition ==
    pc = "validate" =>
       LET ids == current_anonymized
           classes == build_equivalence_classes(heap, ids, quasi_identifiers)
           v == validate_k_anonymity(classes, k)
           strkey(id) ==
               [q \in 1..Len(quasi_identifiers) |->
                   PyStr(IF quasi_identifiers[q] \in DOMAIN heap[id]
                         THEN heap[id][quasi_identifiers[q]] ELSE Str(<<>>))]
           at(ref) == CHOOSE p \in 1..Len(ids) : ids[p] = ref
           size(c) == Len(classes[c].members)
       IN  /\ \A i \in 1..Len(ids) :
                 Cardinality({c \in 1..Len(classes) :
                                 \E m \in 1..size(c) : classes[c].members[m] = ids[i]}) = 1
           /\ \A c \in 1..Len(classes) :
                 /\ size(c) >= 1
                 /\ \A m \in 1..size(c) :
                       /\ classes[c].members[m] \in Range(ids)
                       /\ strkey(classes[c].members[m]) = classes[c].key
                 /\ \A m1, m2 \in 1..size(c) :
                       m1 < m2 => at(classes[c].members[m1]) < at(classes[c].members[m2])
                 /\ \A d \in 1..Len(classes) : d # c => classes[d].key # classes[c].key
           /\ SeqSum([c \in 1..Len(classes) |-> size(c)]) = Len(ids)
           /\ v.is_k_anonymous <=>
                 (classes # <<>> /\ \A c \in 1..Len(classes) : size(c) >= k)
           /\ \A c \in 1..Len(classes) : v.min_class_size <= size(c)
           /\ \E c \in 1..Len(classes) : v.min_class_size = size(c)
           /\ v.violated_classes = Cardinality({c \in 1..Len(classes) : size(c) < k})

\* Three records with two quasi-identifiers grouped into a class of two and a
\* class of one, the class of one below k.
C21_Witness ==
    /\ pc = "validate"
    /\ Len(quasi_identifiers) = 2
    /\ Len(current_anonymized) = 3
    /\ k = 2
    /\ Len(build_equivalence_classes(heap, current_anonymized, quasi_identifiers)) = 2
    /\ validate_k_anonymity(build_equivalence_classes(heap, current_anonymized,
                                                      quasi_identifiers), k)
          = [is_k_anonymous |-> FALSE, min_class_size |-> 1, violated_classes |-> 1]

\* C22: query_average reports the sensitivity field range / n with n the
\* number of records that pass the filter, whether or not they hold a value
\* of the field (the range is the field's configured sensitivity).
C22_AverageByFilteredCount ==
    (/\ dp_ret.op = "average"
     /\ ~dp_ret.raised
     /\ "sensitivity" \in DOMAIN dp_ret.info
     /\ dp_ret.args.field \in DOMAIN field_sensitivity) =>
       dp_ret.info.sensitivity =
          field_sensitivity[dp_ret.args.field]
             \div Cardinality({i \in 1..Len(data) :
                                  \A f \in DOMAIN dp_ret.args.filter_condition :
                                     /\ f \in DOMAIN heap[data[i]]
                                     /\ heap[data[i]][f] = dp_ret.args.filter_condition[f]})

\* C22 as the code has it: n is the number of records that pass the filter
\* and hold a value of the field that is not None, the count the mean is
\* taken over and that the diagnostics report; the range is the field's
\* configured sensitivity or, without one, the largest value less the smallest.
C22_AverageByValueCount ==
    (/\ dp_ret.op = "average"
     /\ ~dp_ret.raised
     /\ "sensitivity" \in DOMAIN dp_ret.info) =>
       LET field == dp_ret.args.field
           valued == {i \in 1..Len(data) :
                         /\ \A f \in DOMAIN dp_ret.args.filter_condition :
                               /\ f \in DOMAIN heap[data[i]]
                               /\ heap[data[i]][f] = dp_ret.args.filter_condition[f]
                         /\ field \in DOMAIN heap[data[i]]
                         /\ heap[data[i]][field] # None}
       IN  /\ dp_ret.info.count = Cardinality(valued)
           /\ field \in DOMAIN field_sensitivity =>
                 dp_ret.info.sensitivity = field_sensitivity[field] \div Cardinality(valued)
           /\ field \notin DOMAIN field_sensitivity =>
                 \E lo, hi \in valued :
                    /\ \A i \in valued :
                          /\ heap[data[lo]][field].n <= heap[data[i]][field].n
                          /\ heap[data[i]][field].n <= heap[data[hi]][field].n
                    /\ dp_ret.info.sensitivity =
                          Fix(heap[data[hi]][field].n - heap[data[lo]][field].n)
                             \div Cardinality(valued)

\* An average over two records that pass the filter, one of them with a null
\* revenue: the sensitivity is the whole range, 1000 / 1.
C22_Witness ==
    /\ dp_ret.op = "average"
    /\ ~dp_ret.raised
    /\ dp_ret.args.field = "revenue_2023"
    /\ dp_ret.args.filter_condition = [sensitivity_level |-> Str(high_levels[1])]
    /\ Len(data) = 2
    /\ \A i \in 1..2 : heap[data[i]]["sensitivity_level"] = Str(high_levels[1])
    /\ \E i \in 1..2 : heap[data[i]]["revenue_2023"] = None
    /\ "sensitivity" \in DOMAIN dp_ret.info
    /\ dp_ret.info.count = 1
    /\ dp_ret.info.sensitivity = field_sensitivity["revenue_2023"]

\* C23: query_sum and query_percentile work with the field's entry in the
\* sensitivity table when it has one, and with the largest value less the
\* smallest only when it has none.  query_sum reports the sensitivity.
\* query_percentile does not: when all values of the field are the same v,
\* strictly within the bounds, a configured sensitivity above 0 shows in a
\* result that is not v, and the fallback, 0, in a result that is v.
C23_ConfiguredSensitivityFirst ==
    /\ (dp_ret.op = "sum" /\ ~dp_ret.raised /\ "sensitivity" \in DOMAIN dp_ret.info) =>
          LET field == dp_ret.args.field
              valued == {i \in 1..Len(data) :
                            /\ \A f \in DOMAIN dp_ret.args.filter_condition :
                                  /\ f \in DOMAIN heap[data[i]]
                                  /\ heap[data[i]][f] = dp_ret.args.filter_condition[f]
                            /\ field \in DOMAIN heap[data[i]]
                            /\ heap[data[i]][field] # None}
          IN  IF field \in DOMAIN field_sensitivity
              THEN dp_ret.info.sensitivity = field_sensitivity[field]
              ELSE \E lo, hi \in valued :
                      /\ \A i \in valued :
                            /\ heap[data[lo]][field].n <= heap[data[i]][field].n
                            /\ heap[data[i]][field].n <= heap[data[hi]][field].n
                      /\ dp_ret.info.sensitivity =
                            Fix(heap[data[hi]][field].n - heap[data[lo]][field].n)
    /\ (dp_ret.op = "percentile" /\ ~dp_ret.raised /\ "count" \in DOMAIN dp_ret.info) =>
          LET field == dp_ret.args.field
              valued == {i \in 1..Len(data) :
                            /\ field \in DOMAIN heap[data[i]]
                            /\ heap[data[i]][field] # None}
          IN  \A i \in valued :
                 (\A j \in valued : heap[data[j]][field] = heap[data[i]][field]) =>
                    \A p \in DOMAIN dp_ret.value :
                       IF field \notin DOMAIN field_sensitivity
                       THEN dp_ret.value[p] * Unit = Fix(heap[data[i]][field].n) * 10000
                       ELSE (/\ field_sensitivity[field] > 0
                             /\ field_bounds[field][1] < Fix(heap[data[i]][field].n)
                             /\ Fix(heap[data[i]][field].n) < field_bounds[field][2]) =>
                               dp_ret.value[p] * Unit # Fix(heap[data[i]][field].n) * 10000

\* A sum of patent_count over the values 5 and 20, after custom bounds (0, 10)
\* were installed for it: the sensitivity used is 10, not 20 - 5.
C23_Witness ==
    /\ dp_ret.op = "sum"
    /\ ~dp_ret.raised
    /\ dp_ret.args.field = "patent_count"
    /\ dp_ret.args.filter_condition = <<>>
    /\ "sensitivity" \in DOMAIN dp_ret.info
    /\ "patent_count" \in DOMAIN field_sensitivity
    /\ dp_ret.info.sensitivity = Fix(10)
    /\ \A i \in 1..Len(data) : "patent_count" \in DOMAIN heap[data[i]]
    /\ \E i, j \in 1..Len(data) :
          /\ heap[data[i]]["patent_count"] = Num(5)
          /\ heap[data[j]]["patent_count"] = Num(20)

\* C25: when compute_information_loss is called at the end of anonymize, the
\* list of anonymized records is aligned with the input list: the record at
\* position i derives from the input record at position i.
C25_PositionAligned ==
    (pc = "final") =>
       /\ Len(anonymized_data) = Len(data)
       /\ \A i \in 1..Len(data) :
             heap[anonymized_data[i]]["company_id"] = heap[data[i]]["company_id"]

\* C27: the iterations statistic is the number of rounds executed, and is at
\* most max_iterations.
C27_IterationsAreRounds ==
    (pc = "done" /\ "iterations" \in DOMAIN ret.stats) =>
       /\ ret.stats.iterations = rounds
       /\ ret.stats.iterations <= max_iterations

\* C28: every quasi-identifier value of a returned record is '*' or the
\* generalization, at one of the levels 1..3, of the value the input record
\* had in that field.
C28_GeneralizedFromOriginal ==
    (pc = "done") =>
       \A i \in 1..Len(ret.records) :
          \A j \in 1..Len(data) :
             (heap[ret.records[i]]["company_id"] = heap[data[j]]["company_id"]) =>
                \A q \in Range(quasi_identifiers) \cap DOMAIN heap[ret.records[i]] :
                   \/ heap[ret.records[i]][q] = Str(MASK)
                   \/ \E L \in 1..3 :
                         heap[ret.records[i]][q] = generalize(q, heap[data[j]][q], L)

\* C26: a call of anonymize that returns records returns as many as it was
\* given, reports that number twice in its statistics, and the fields outside
\* the quasi-identifiers have, taken over all records, the same values with
\* the same multiplicities in the output as in the input.
C26_RecordsPreserved ==
    (pc = "done") =>
       LET others(id) == [f \in DOMAIN heap[id] \ Range(quasi_identifiers) |-> heap[id][f]]
           times(ids, r) == Cardinality({j \in 1..Len(ids) : others(ids[j]) = r})
       IN  /\ Len(ret.records) = Len(data)
           /\ ret.stats.original_records = Len(data)
           /\ ret.stats.anonymized_records = ret.stats.original_records
           /\ \A i \in 1..Len(data) :
                 times(ret.records, others(data[i])) = times(data, others(data[i]))
           /\ \A i \in 1..Len(ret.records) :
                 times(ret.records, others(ret.records[i]))
                    = times(data, others(ret.records[i]))

\* Three records, a failed round that kept a conforming class and handled a
\* small one, and an output in another order than the input.
C26_Witness ==
    /\ pc = "done"
    /\ Len(data) = 3
    /\ Len(ret.records) = 3
    /\ rounds >= 1
    /\ iteration >= 1
    /\ \E i \in 1..3 :
          heap[ret.records[i]]["company_id"] # heap[data[i]]["company_id"]

\* C30: two records whose quasi-identifier values were identical in the input
\* have identical quasi-identifier values in the records generalized by a
\* round, in the records a round hands to the next, and in the output.
C30_IdenticalTreatedIdentically ==
    LET qi_values(id) ==
            [q \in Range(quasi_identifiers) \cap DOMAIN heap[id] |-> heap[id][q]]
        original(id) ==
            CHOOSE d \in Range(data) : heap[d]["company_id"] = heap[id]["company_id"]
        alike(ids) ==
            \A i, j \in 1..Len(ids) :
               (qi_values(original(ids[i])) = qi_values(original(ids[j]))) =>
                  qi_values(ids[i]) = qi_values(ids[j])
    IN  /\ alike(current_anonymized)
        /\ alike(anonymized_data)
        /\ alike(ret.records)

\* Two records alike in the input and a third one, k = 3: the first round
\* fails, the pool is handled, and the two come out alike and changed.
C30_Witness ==
    /\ pc = "done"
    /\ quasi_identifiers = <<"revenue_2023">>
    /\ k = 3
    /\ iteration >= 1
    /\ Len(ret.records) = 3
    /\ \E i, j \in 1..3 :
          /\ i # j
          /\ heap[data[i]]["revenue_2023"] = Num(3)
          /\ heap[data[j]]["revenue_2023"] = Num(3)
          /\ \E a, b \in 1..3 :
                /\ heap[ret.records[a]]["company_id"] = heap[data[i]]["company_id"]
                /\ heap[ret.records[b]]["company_id"] = heap[data[j]]["company_id"]
                /\ heap[ret.records[a]]["revenue_2023"] = heap[ret.records[b]]["revenue_2023"]
                /\ heap[ret.records[a]]["revenue_2023"] # Num(3)
    /\ \E i \in 1..3 : heap[data[i]]["revenue_2023"] # Num(3)

\* C24: of two privatize_enterprise_data calls running at the same time on
\* one instance with different bounds for a field, each puts into its records
\* only values of the field within the bounds it brought, and the bounds and
\* the sensitivity it read for a value are those of one update, its own or
\* the other call's.
C24_ConcurrentCallsIsolated ==
    \A t \in DOMAIN threads :
       /\ \A i \in 1..Len(threads[t].privatized_data) :
             /\ threads[t].custom_bounds[ConcField][1] <= threads[t].privatized_data[i]
             /\ threads[t].privatized_data[i] <= threads[t].custom_bounds[ConcField][2]
       /\ (threads[t].pc \in {"record", "returned"} /\ threads[t].bounds # <<>>) =>
             \E u \in DOMAIN threads :
                /\ threads[t].bounds = threads[u].custom_bounds[ConcField]
                /\ threads[t].sensitivity =
                      threads[u].custom_bounds[ConcField][2]
                         - threads[u].custom_bounds[ConcField][1]

\* C29: on an instance called one call after the other, every field of the
\* bounds table has, in the sensitivity table, its maximum less its minimum,
\* at construction and after every call; and a query_* or
\* evaluate_privacy_budget call leaves both tables, epsilon and delta as they
\* were.
C29_SensitivityIsRange ==
    /\ \A f \in DOMAIN field_bounds :
          /\ f \in DOMAIN field_sensitivity
          /\ field_sensitivity[f] = field_bounds[f][2] - field_bounds[f][1]
    /\ [][\A f \in DOMAIN field_bounds' :
             /\ f \in DOMAIN field_sensitivity'
             /\ field_sensitivity'[f] = field_bounds'[f][2] - field_bounds'[f][1]]_vars
    /\ [][(dp_ret'.op \in {"count", "sum", "average", "histogram", "percentile", "budget"}) =>
             /\ field_bounds' = field_bounds
             /\ field_sensitivity' = field_sensitivity
             /\ epsilon' = epsilon
             /\ delta' = delta]_vars

\* A query answered on an instance whose tables a privatize call extended by
\* a field with bounds (0, 10): its sensitivity is 10.
C29_Witness ==
    /\ dp_ret.op \in {"count", "sum", "average", "histogram", "percentile", "budget"}
    /\ "patent_count" \in DOMAIN field_bounds
    /\ field_bounds["patent_count"] = <<Fix(0), Fix(10)>>
    /\ "patent_count" \in DOMAIN field_sensitivity
    /\ field_sensitivity["patent_count"] = Fix(10)
    /\ field_bounds["revenue_2023"] = <<Unit \div 3, Fix(200)>>
    /\ field_sensitivity["revenue_2023"] = Fix(200) - Unit \div 3
====
